---- MODULE Spec2Model ----
(***************************************************************************)
(* Retrieval-augmented code search: the vector store                       *)
(* (simple-vector-store.js), the retriever (query-rag.js) and the          *)
(* LLM-enhanced query (enhanced-query.js).                                 *)
(*                                                                         *)
(* JavaScript values are modelled as follows.                              *)
(*   - null / undefined: the empty tuple <<>>; a present value x: <<x>>.   *)
(*   - text returned by the generation service: a sequence of one-char     *)
(*     strings, so that trim() is computed.                                *)
(*   - an error message: a non-empty tuple of strings, the parts the code  *)
(*     concatenates (`LLM generation failed: ${error.message}` is          *)
(*     <<"LLM generation failed: ">> \o message).                          *)
(*   - a floating-point similarity: the exact rational [num, den].         *)
(***************************************************************************)
EXTENDS Integers, Sequences, FiniteSets, TLC

\* Bounds of the model.
MaxDocs == 3          \* most chunks held by a store snapshot

\* Program constants.
DefaultLimit == 5     \* query(queryText, { limit = 5 }), query(emb, limit = 5)
TopResults == 3       \* ragResults.slice(0, 3)

Null == <<>>
Some(x) == <<x>>

Min(a, b) == IF a <= b THEN a ELSE b
Max(a, b) == IF a >= b THEN a ELSE b

Range(s) == {s[i] : i \in 1..Len(s)}

(***************************************************************************)
(* Embeddings.  Integer vectors whose norms are integers, so that          *)
(* cosineSimilarity is an exact rational.                                  *)
(***************************************************************************)
\* The chunks a snapshot is made of: ids are unique, two chunks share an
\* embedding (equal similarity to every query).
ChunkPool ==
  { [id |-> "a.test.js", document |-> "describe(", embedding |-> <<3, 4>>,
     metadata |-> [file_path |-> "a.test.js", content_type |-> "test", file_type |-> "js"]],
    [id |-> "b.json", document |-> "{}", embedding |-> <<3, 4>>,
     metadata |-> [file_path |-> "b.json", content_type |-> "config", file_type |-> "json"]],
    [id |-> "c.yml", document |-> "a: 1", embedding |-> <<4, 3>>,
     metadata |-> [file_path |-> "c.yml", content_type |-> "config", file_type |-> "yml"]],
    [id |-> "d.js", document |-> "module.exports", embedding |-> <<-4, 3>>,
     metadata |-> [file_path |-> "d.js", content_type |-> "module", file_type |-> "js"]] }

\* Sequences of distinct chunks, at most n long.
ChunkSeqs(n) ==
  UNION { { s \in [1..k -> ChunkPool] : \A i, j \in 1..k : s[i] = s[j] => i = j }
          : k \in 0..n }

StoreFields == {"documents", "embeddings", "metadata", "ids"}

\* this.data of the constructor: four empty sequences.
EmptyData ==
  [fields |-> StoreFields, documents |-> <<>>, embeddings |-> <<>>,
   metadata |-> <<>>, ids |-> <<>>]

\* The snapshot holding the chunks of s, position by position.
Snapshot(s) ==
  [fields |-> StoreFields,
   documents |-> [i \in 1..Len(s) |-> s[i].document],
   embeddings |-> [i \in 1..Len(s) |-> s[i].embedding],
   metadata |-> [i \in 1..Len(s) |-> s[i].metadata],
   ids |-> [i \in 1..Len(s) |-> s[i].id]]

\* A parseable artifact that is not a snapshot: JSON.parse gives an object
\* without the four properties.
GarbageData == [EmptyData EXCEPT !.fields = {}]

\* The durable artifact vector_store.json.
Artifacts ==
  { [kind |-> "missing", json |-> EmptyData],
    [kind |-> "unparseable", json |-> EmptyData],
    [kind |-> "parseable", json |-> GarbageData] }
  \cup { [kind |-> "parseable", json |-> Snapshot(s)] : s \in ChunkSeqs(MaxDocs) }

(***************************************************************************)
(* SimpleVectorStore                                                       *)
(***************************************************************************)
\* A call's outcome: a returned value or a thrown error.
Return(v) == [thrown |-> FALSE, value |-> Some(v), error |-> Null]
Throw(e) == [thrown |-> TRUE, value |-> Null, error |-> Some(e)]

Val(o) == o.value[1]
Err(o) == o.error[1]

TypeError == <<"TypeError">>

\* initialize(): this.data after loading the artifact; `cur` is this.data
\* of the constructor.  JSON.parse assigns this.data before the log line
\* that reads this.data.documents.length, and the catch keeps it.
VectorStore_initialize(art, cur) ==
  IF art.kind = "missing" THEN cur
  ELSE IF art.kind = "unparseable" THEN cur
  ELSE art.json

\* count(): this.data.documents.length
VectorStore_count(d) ==
  IF "documents" \in d.fields THEN Return(Len(d.documents)) ELSE Throw(TypeError)

Sqrt(n) == CHOOSE r \in 0..n : r * r = n

RECURSIVE SumTo(_, _)
SumTo(f, n) == IF n = 0 THEN 0 ELSE SumTo(f, n - 1) + f[n]

\* cosineSimilarity(vecA, vecB): dotProduct / (sqrt(normA) * sqrt(normB))
cosineSimilarity(vecA, vecB) ==
  LET n == Len(vecA)
      dotProduct == SumTo([i \in 1..n |-> vecA[i] * vecB[i]], n)
      normA == SumTo([i \in 1..n |-> vecA[i] * vecA[i]], n)
      normB == SumTo([i \in 1..n |-> vecB[i] * vecB[i]], n)
  IN [num |-> dotProduct, den |-> Sqrt(normA) * Sqrt(normB)]

\* a < b, a = b on rationals with positive denominators
RatLess(a, b) == a.num * b.den < b.num * a.den
RatEq(a, b) == a.num * b.den = b.num * a.den
\* 1 - r
OneMinus(r) == [num |-> r.den - r.num, den |-> r.den]

\* A comparator that puts a before b also when their similarities are equal.
SortsBefore_Unstable(a, b) == ~ RatLess(a.similarity, b.similarity)

\* The comparator of the sort: (a, b) => b.similarity - a.similarity is
\* negative (a goes first) exactly when a.similarity > b.similarity.
SortsBefore(a, b) == RatLess(b.similarity, a.similarity)

\* Array.prototype.sort is stable: x goes after every element that does
\* not sort after it.
RECURSIVE InsertSorted(_, _)
InsertSorted(sorted, x) ==
  IF sorted = <<>> THEN <<x>>
  ELSE IF SortsBefore(x, sorted[1]) THEN <<x>> \o sorted
  ELSE <<sorted[1]>> \o InsertSorted(Tail(sorted), x)

RECURSIVE SortBySimilarity(_)
SortBySimilarity(s) ==
  IF s = <<>> THEN <<>>
  ELSE InsertSorted(SortBySimilarity(SubSeq(s, 1, Len(s) - 1)), s[Len(s)])

\* Array.prototype.slice(0, end)
Slice(s, end) ==
  LET e == IF end < 0 THEN Max(Len(s) + end, 0) ELSE Min(end, Len(s))
  IN SubSeq(s, 1, e)

\* array[index] of a JavaScript array: undefined beyond its length.
Undefined == "undefined"
UndefinedMeta == [file_path |-> Undefined, content_type |-> Undefined, file_type |-> Undefined]
At(array, index, undefined) == IF index \in DOMAIN array THEN array[index] ELSE undefined

RECURSIVE Filter(_, _, _)
Filter(s, where, metadata) ==
  IF s = <<>> THEN <<>>
  ELSE LET meta == metadata[s[1].index]
           keep == \A key \in DOMAIN where : meta[key] = where[key]
       IN (IF keep THEN <<s[1]>> ELSE <<>>) \o Filter(Tail(s), where, metadata)

\* query() cutting the ranking to `limit` before the filter is applied.
VectorStore_query_SliceFirst(d, queryEmbedding, limit, where) ==
  IF ~ (StoreFields \subseteq d.fields) THEN Throw(TypeError)
  ELSE
    LET similarities ==
          [i \in 1..Len(d.embeddings) |->
             [index |-> i, similarity |-> cosineSimilarity(queryEmbedding, d.embeddings[i])]]
        sorted == Slice(SortBySimilarity(similarities), limit)
        topResults ==
          IF DOMAIN where # {} THEN Filter(sorted, where, d.metadata) ELSE sorted
        n == Len(topResults)
    IN IF DOMAIN where # {} /\ Len(d.embeddings) > Len(d.metadata)
       THEN Throw(TypeError)
       ELSE
       Return([ids |-> [i \in 1..n |-> At(d.ids, topResults[i].index, Undefined)],
               distances |-> [i \in 1..n |-> OneMinus(topResults[i].similarity)],
               metadatas |-> [i \in 1..n |->
                                At(d.metadata, topResults[i].index, UndefinedMeta)],
               documents |-> [i \in 1..n |->
                                At(d.documents, topResults[i].index, Undefined)]])

\* query(queryEmbedding, limit, where): `where` maps a metadata key to the
\* value of its $eq condition; no filter is the empty mapping.
VectorStore_query(d, queryEmbedding, limit, where) ==
  IF ~ (StoreFields \subseteq d.fields) THEN Throw(TypeError)
  ELSE
    LET similarities ==
          [i \in 1..Len(d.embeddings) |->
             [index |-> i, similarity |-> cosineSimilarity(queryEmbedding, d.embeddings[i])]]
        sorted == SortBySimilarity(similarities)
        filteredResults ==
          IF DOMAIN where # {} THEN Filter(sorted, where, d.metadata) ELSE sorted
        topResults == Slice(filteredResults, limit)
        n == Len(topResults)
    IN IF DOMAIN where # {} /\ Len(d.embeddings) > Len(d.metadata)
       THEN Throw(TypeError)   \* meta is undefined: meta[key] throws
       ELSE
       Return([ids |-> [i \in 1..n |-> At(d.ids, topResults[i].index, Undefined)],
               distances |-> [i \in 1..n |-> OneMinus(topResults[i].similarity)],
               metadatas |-> [i \in 1..n |->
                                At(d.metadata, topResults[i].index, UndefinedMeta)],
               documents |-> [i \in 1..n |->
                                At(d.documents, topResults[i].index, Undefined)]])

\* get(options): limit = options.limit || this.data.documents.length
VectorStore_get(d, limit) ==
  IF ~ (StoreFields \subseteq d.fields) THEN Throw(TypeError)
  ELSE LET n == IF limit = Null \/ limit = Some(0) THEN Len(d.documents) ELSE limit[1]
       IN Return([ids |-> Slice(d.ids, n),
                  metadatas |-> Slice(d.metadata, n),
                  documents |-> Slice(d.documents, n)])

\* JSON.stringify(this.data, null, 2): the text JSON.parse gives d back from.
JSON_stringify(d) == [kind |-> "parseable", json |-> d]

\* What fs.writeFileSync can do: write the file; throw before touching it
\* (it cannot be opened); throw after it was truncated and partly written.
WriteResults == {"written", "refused", "partial"}
WriteError == <<"EACCES">>
PartialFile == [kind |-> "unparseable", json |-> EmptyData]

\* add() appending to the sequences held instead of replacing them.
VectorStore_add_Merge(d, art, documents, embeddings, metadata, ids, write) ==
  LET held == IF StoreFields \subseteq d.fields THEN d ELSE EmptyData
      assigned == [fields |-> StoreFields,
                   documents |-> held.documents \o documents,
                   embeddings |-> held.embeddings \o embeddings,
                   metadata |-> held.metadata \o metadata,
                   ids |-> held.ids \o ids]
  IN [data |-> assigned,
      artifact |-> IF write = "written" THEN JSON_stringify(assigned)
                   ELSE IF write = "refused" THEN art ELSE PartialFile,
      outcome |-> IF write = "written" THEN Return(Null) ELSE Throw(WriteError)]

\* add(documents, embeddings, metadata, ids) on a store holding d over the
\* artifact art: this.data, the artifact and the outcome after the call.
\* this.data is assigned before the file is written; nothing compares the
\* lengths of the four arrays.
VectorStore_add(d, art, documents, embeddings, metadata, ids, write) ==
  LET assigned == [fields |-> StoreFields,
                   documents |-> documents,
                   embeddings |-> embeddings,
                   metadata |-> metadata,
                   ids |-> ids]
  IN [data |-> assigned,
      artifact |-> IF write = "written" THEN JSON_stringify(assigned)
                   ELSE IF write = "refused" THEN art ELSE PartialFile,
      outcome |-> IF write = "written" THEN Return(Null) ELSE Throw(WriteError)]

(***************************************************************************)
(* CodebaseRAGQuery                                                        *)
(***************************************************************************)
IndexEmptyMessage == <<"RAG database not found. Please run \"npm run build-rag\" first.">>
PipelineError == <<"pipeline failed">>
EmbedderError == <<"embedder failed">>

\* The embedding model: text -> normalized vector, the same for the same text.
QueryTexts == {"unit tests", "configuration", "deployment"}
Embed(text) ==
  CASE text = "unit tests" -> <<3, 4>>
    [] text = "configuration" -> <<4, 3>>
    [] OTHER -> <<0, 5>>

\* The options of query(): limit, contentType, fileType, includeCode, each
\* possibly absent.
Limits == {Null} \cup {Some(k) : k \in 0..(MaxDocs + 1)}
ContentTypes == {Null, Some("test"), Some("config")}
FileTypes == {Null, Some("js"), Some("json")}
QueryOptions ==
  [limit : Limits, contentType : ContentTypes, fileType : FileTypes,
   includeCode : {Null, Some(FALSE)}]

\* const { limit = 5, contentType = null, fileType = null, includeCode = true }
OptLimit(options) == IF options.limit = Null THEN DefaultLimit ELSE options.limit[1]
OptIncludeCode(options) ==
  IF options.includeCode = Null THEN TRUE ELSE options.includeCode[1]

\* whereClause: content_type / file_type $eq conditions for the options given
WhereClause(options) ==
  LET keys == (IF options.contentType # Null THEN {"content_type"} ELSE {})
              \cup (IF options.fileType # Null THEN {"file_type"} ELSE {})
  IN [key \in keys |->
        IF key = "content_type" THEN options.contentType[1] ELSE options.fileType[1]]

\* formatResults(results, includeCode)
formatResults(results, includeCode) ==
  [i \in 1..Len(results.ids) |->
     [id |-> results.ids[i],
      score |-> OneMinus(results.distances[i]),
      metadata |-> results.metadatas[i],
      document |-> IF includeCode THEN Some(results.documents[i]) ELSE Null]]

\* query(queryText, options): `embedOk` is whether the embedder call returns.
RAGQuery_query(d, emb, embedOk, queryText, options) ==
  IF emb = "null" THEN Throw(TypeError)
  ELSE IF ~ embedOk THEN Throw(EmbedderError)
  ELSE
    LET results == VectorStore_query(d, Embed(queryText), OptLimit(options),
                                     WhereClause(options))
    IN IF results.thrown THEN results
       ELSE Return(formatResults(Val(results), OptIncludeCode(options)))

(***************************************************************************)
(* EnhancedRAGQuery                                                        *)
(***************************************************************************)
Model == "llama3.2:latest"

\* What a fetch() of the generation service can end in.
FetchFailed == <<"fetch failed">>
TimedOut == <<"The operation was aborted due to timeout">>
JsonError == <<"Unexpected token in JSON">>
HttpError(status) == <<"HTTP ", status>>
OllamaApiError(status) == <<"Ollama API error (", status, ")">>

\* GET /api/tags
ModelLists ==
  {Null, Some(<<>>), Some(<<"qwen2.5:1.5b">>), Some(<<"llama3.2:latest">>),
   Some(<<"qwen2.5:1.5b", "llama3.2:latest">>)}
ProbeResponses ==
  { [kind |-> k, status |-> "", models |-> Null] : k \in {"network", "timeout", "badjson"} }
  \cup { [kind |-> "http", status |-> "500", models |-> Null] }
  \cup { [kind |-> "ok", status |-> "200", models |-> m] : m \in ModelLists }

\* POST /api/generate
Whitespace == {" ", "\n", "\t"}
Texts == { <<>>, <<" ", "\n">>, <<"O", "K">>, <<" ", "O", " ", "K", "\n">> }
GenerateResponses ==
  { [kind |-> k, status |-> "", response |-> Null] : k \in {"network", "timeout", "badjson"} }
  \cup { [kind |-> "http", status |-> "500", response |-> Null] }
  \cup { [kind |-> "ok", status |-> "200", response |-> r] : r \in {Null} \cup {Some(t) : t \in Texts} }

\* String.prototype.trim
RECURSIVE TrimStart(_)
TrimStart(t) ==
  IF t # <<>> /\ t[1] \in Whitespace THEN TrimStart(Tail(t)) ELSE t
RECURSIVE TrimEnd(_)
TrimEnd(t) ==
  IF t # <<>> /\ t[Len(t)] \in Whitespace THEN TrimEnd(SubSeq(t, 1, Len(t) - 1)) ELSE t
Trim(t) == TrimEnd(TrimStart(t))

\* checkOllamaStatus without the `!response.ok` test: a non-2xx answer is
\* read as a model list.
checkOllamaStatus_NoOkCheck(resp) ==
  IF resp.kind \in {"network", "timeout", "badjson"}
  THEN [running |-> FALSE, hasModel |-> FALSE, models |-> <<>>,
        error |-> Some(IF resp.kind = "network" THEN FetchFailed
                       ELSE IF resp.kind = "timeout" THEN TimedOut ELSE JsonError)]
  ELSE LET availableModels == IF resp.models = Null THEN <<>> ELSE resp.models[1]
       IN [running |-> TRUE, hasModel |-> Model \in Range(availableModels),
           models |-> availableModels, error |-> Null]

\* checkOllamaStatus taking any installed model for the configured one.
checkOllamaStatus_AnyModel(resp) ==
  IF resp.kind # "ok"
  THEN [running |-> FALSE, hasModel |-> FALSE, models |-> <<>>,
        error |-> Some(IF resp.kind = "network" THEN FetchFailed
                       ELSE IF resp.kind = "timeout" THEN TimedOut
                       ELSE IF resp.kind = "http" THEN HttpError(resp.status)
                       ELSE JsonError)]
  ELSE LET availableModels == IF resp.models = Null THEN <<>> ELSE resp.models[1]
       IN [running |-> TRUE, hasModel |-> Len(availableModels) > 0,
           models |-> availableModels, error |-> Null]

\* checkOllamaStatus(): everything thrown inside is caught.
checkOllamaStatus(resp) ==
  LET failed(msg) == [running |-> FALSE, hasModel |-> FALSE, models |-> <<>>,
                      error |-> Some(msg)]
  IN CASE resp.kind = "network" -> failed(FetchFailed)
       [] resp.kind = "timeout" -> failed(TimedOut)
       [] resp.kind = "http" -> failed(HttpError(resp.status))
       [] resp.kind = "badjson" -> failed(JsonError)
       [] OTHER ->
            LET availableModels == IF resp.models = Null THEN <<>> ELSE resp.models[1]
            IN [running |-> TRUE,
                hasModel |-> Model \in Range(availableModels),
                models |-> availableModels,
                error |-> Null]

\* testModelGeneration(): true when the trial request is answered 2xx with JSON.
testModelGeneration(resp) == resp.kind = "ok"

\* The synchronous head of enhanceWithLLM: the guard on ragResults and the
\* prompt built from the top results (result.document.substring throws on
\* a null document).
BuildPrompt(queryText, results) ==
  IF Len(results) = 0 THEN Throw(<<"No RAG results to enhance">>)
  ELSE
    LET topResults == Slice(results, TopResults)
    IN IF \E i \in 1..Len(topResults) : topResults[i].document = Null
       THEN Throw(TypeError)
       ELSE Return([query |-> queryText,
                    found |-> Len(results),
                    context |-> [i \in 1..Len(topResults) |-> topResults[i].id]])

\* The try block with `!data.response` as its only emptiness test.
GenerationOutcome_NoTrimTest(resp) ==
  IF resp.kind # "ok"
  THEN Throw(<<"LLM generation failed: ">> \o
             (IF resp.kind = "network" THEN FetchFailed
              ELSE IF resp.kind = "timeout" THEN TimedOut
              ELSE IF resp.kind = "http" THEN OllamaApiError(resp.status)
              ELSE JsonError))
  ELSE IF resp.response = Null \/ resp.response[1] = <<>>
  THEN Throw(<<"LLM generation failed: ", "Empty response from LLM">>)
  ELSE Return(Trim(resp.response[1]))

\* The try block returning data.response as it came.
GenerationOutcome_NoTrim(resp) ==
  IF resp.kind # "ok"
  THEN Throw(<<"LLM generation failed: ">> \o
             (IF resp.kind = "network" THEN FetchFailed
              ELSE IF resp.kind = "timeout" THEN TimedOut
              ELSE IF resp.kind = "http" THEN OllamaApiError(resp.status)
              ELSE JsonError))
  ELSE IF resp.response = Null \/ resp.response[1] = <<>>
          \/ Len(Trim(resp.response[1])) = 0
  THEN Throw(<<"LLM generation failed: ", "Empty response from LLM">>)
  ELSE Return(resp.response[1])

\* The try block of enhanceWithLLM on the answer to the generation request.
GenerationOutcome(resp) ==
  LET failed(msg) == Throw(<<"LLM generation failed: ">> \o msg)
  IN CASE resp.kind = "network" -> failed(FetchFailed)
       [] resp.kind = "timeout" -> failed(TimedOut)
       [] resp.kind = "http" -> failed(OllamaApiError(resp.status))
       [] resp.kind = "badjson" -> failed(JsonError)
       [] OTHER ->
            IF resp.response = Null \/ resp.response[1] = <<>>
               \/ Len(Trim(resp.response[1])) = 0
            THEN failed(<<"Empty response from LLM">>)
            ELSE Return(Trim(resp.response[1]))

\* enhanceWithLLM(query, ragResults)
enhanceWithLLM(queryText, results, resp) ==
  IF BuildPrompt(queryText, results).thrown THEN BuildPrompt(queryText, results)
  ELSE GenerationOutcome(resp)

\* The object enhancedQuery returns.
EnhancementResult(results, enhancedResponse, error) ==
  [ragResults |-> results, enhancedResponse |-> enhancedResponse, error |-> error]

(***************************************************************************)
(* State: one query object (CodebaseRAGQuery / EnhancedRAGQuery) and its   *)
(* caller, over a durable artifact.                                        *)
(***************************************************************************)
VARIABLES
  artifact,   \* vector_store.json
  data,       \* this.vectorStore.data
  embedder,   \* this.embedder: "null" or "loaded"
  pc,         \* where the caller is: "new", "initFailed", "ready" (about to
              \* call), "returned" (holding the outcome of its call), or the
              \* await enhancedQuery is suspended at
  call,       \* the operation called last and its arguments
  outcome,    \* what the operation called last returned or threw
  ragResults, \* enhancedQuery's ragResults
  requests,   \* the requests sent to the generation service by the current
              \* enhancedQuery, in order, each with its answer
  stages,     \* the stages the current enhancedQuery has entered, in order
  terminal,   \* how the current enhancedQuery ended, "none" while it runs
  replaced,   \* the last add() on the store handle: <<this.data before it,
              \* the object it assigns>>; <<>> while there was none
  fsys,       \* the files under codebaseRoot, as the walk of a build finds them
  builder     \* the CodebaseRAGBuilder: documents, metadata, ids, embeddings

\* The variables only the store's and the builder's specifications change.
buildVars == <<replaced, fsys, builder>>

vars == <<artifact, data, embedder, pc, call, outcome, ragResults, requests, stages, terminal,
          buildVars>>

\* No build runs: no tree is walked and no builder is constructed.
NoFiles == [root |-> <<>>, items |-> <<>>]
NoBuilder == [documents |-> <<>>, metadata |-> <<>>, ids |-> <<>>, embeddings |-> <<>>]

NoCall == [op |-> "none", queryText |-> "", options |-> Null, showRawResults |-> TRUE]
NoOutcome == [thrown |-> FALSE, value |-> Null, error |-> Null]

Init ==
  /\ artifact \in Artifacts
  /\ data = EmptyData
  /\ embedder = "null"
  /\ pc = "new"
  /\ call = NoCall
  /\ outcome = NoOutcome
  /\ ragResults = <<>>
  /\ requests = <<>>
  /\ stages = <<>>
  /\ terminal = "none"
  /\ replaced = <<>>
  /\ fsys = NoFiles
  /\ builder = NoBuilder

\* initialize() without the test on count().
RAGQuery_initialize_NoCountTest(d, pipelineOk) ==
  LET count == VectorStore_count(d)
  IN IF count.thrown THEN count
     ELSE IF ~ pipelineOk THEN Throw(PipelineError)
     ELSE Return(Null)

\* CodebaseRAGQuery.initialize(): what it returns or throws for the store
\* data loaded; `pipelineOk` is whether loading the embedding model succeeds.
RAGQuery_initialize(d, pipelineOk) ==
  LET count == VectorStore_count(d)
  IN IF count.thrown THEN count
     ELSE IF Val(count) = 0 THEN Throw(IndexEmptyMessage)
     ELSE IF ~ pipelineOk THEN Throw(PipelineError)
     ELSE Return(Null)

\* The caller constructs the query object and awaits initialize(); every
\* caller stops when it throws.
Initialize ==
  /\ pc = "new"
  /\ \E pipelineOk \in BOOLEAN :
       LET d == VectorStore_initialize(artifact, data)
           r == RAGQuery_initialize(d, pipelineOk)
       IN /\ data' = d
          /\ outcome' = r
          /\ embedder' = IF r.thrown THEN "null" ELSE "loaded"
          /\ pc' = IF r.thrown THEN "initFailed" ELSE "ready"
          /\ call' = NoCall
  /\ UNCHANGED <<buildVars, artifact, ragResults, requests, stages, terminal>>

\* query() with the store sorting this.data.embeddings itself.
Query_SortInPlace ==
  /\ pc = "ready"
  /\ \E queryText \in QueryTexts, options \in QueryOptions, embedOk \in BOOLEAN :
       /\ call' = [op |-> "query", queryText |-> queryText, options |-> Some(options),
                   showRawResults |-> TRUE]
       /\ outcome' = RAGQuery_query(data, embedder, embedOk, queryText, options)
       /\ LET sorted == SortBySimilarity(
                          [i \in 1..Len(data.embeddings) |->
                             [index |-> i,
                              similarity |-> cosineSimilarity(Embed(queryText),
                                                              data.embeddings[i])]])
          IN data' = [data EXCEPT !.embeddings =
                        [i \in 1..Len(sorted) |-> data.embeddings[sorted[i].index]]]
  /\ pc' = "returned"
  /\ UNCHANGED <<buildVars, artifact, embedder, ragResults, requests, stages, terminal>>

\* The caller awaits query(queryText, options).
Query ==
  /\ pc = "ready"
  /\ \E queryText \in QueryTexts, options \in QueryOptions, embedOk \in BOOLEAN :
       /\ call' = [op |-> "query", queryText |-> queryText, options |-> Some(options),
                   showRawResults |-> TRUE]
       /\ outcome' = RAGQuery_query(data, embedder, embedOk, queryText, options)
  /\ pc' = "returned"
  /\ UNCHANGED <<buildVars, artifact, data, embedder, ragResults, requests, stages, terminal>>

\* The options enhancedQuery is called with: showRawResults, and the rest
\* handed on to query().
EnhancedRagOptions ==
  [limit : {Null, Some(1)}, contentType : {Null, Some("test")}, fileType : {Null},
   includeCode : {Null, Some(FALSE)}]

\* A request sent to the generation service and, once it is there, its answer.
Request(endpoint) == [endpoint |-> endpoint, answer |-> Null]
Answered(reqs, resp) == [reqs EXCEPT ![Len(reqs)].answer = Some(resp)]

\* enhancedQuery returns `result` or throws.
Finish(o, term) ==
  /\ outcome' = o
  /\ terminal' = term
  /\ pc' = "returned"

\* The caller calls enhancedQuery(queryText, options): it runs up to
\* `await this.query(...)`.
EnhancedQuery ==
  /\ pc = "ready"
  /\ \E queryText \in QueryTexts, options \in EnhancedRagOptions, showRaw \in BOOLEAN :
       call' = [op |-> "enhancedQuery", queryText |-> queryText,
                options |-> Some(options), showRawResults |-> showRaw]
  /\ pc' = "RETRIEVE"
  /\ outcome' = NoOutcome
  /\ ragResults' = <<>>
  /\ requests' = <<>>
  /\ stages' = <<"RETRIEVE">>
  /\ terminal' = "none"
  /\ UNCHANGED <<buildVars, artifact, data, embedder>>

\* Step 1 with the empty-result test nested under showRawResults.
Retrieve_EmptyTestNested ==
  /\ pc = "RETRIEVE"
  /\ \E embedOk \in BOOLEAN :
       LET r == RAGQuery_query(data, embedder, embedOk, call.queryText, call.options[1])
       IN IF r.thrown
          THEN /\ Finish(r, "THROWN")
               /\ UNCHANGED <<ragResults, requests, stages>>
          ELSE /\ ragResults' = Val(r)
               /\ IF call.showRawResults /\ Len(Val(r)) = 0
                  THEN /\ Finish(Return(EnhancementResult(<<>>, Null,
                                          Some(<<"No results found">>))), "FALLBACK")
                       /\ UNCHANGED <<requests, stages>>
                  ELSE /\ pc' = "CHECK_SERVICE"
                       /\ requests' = <<Request("/api/tags")>>
                       /\ stages' = Append(stages, "CHECK_SERVICE")
                       /\ UNCHANGED <<outcome, terminal>>
  /\ UNCHANGED <<buildVars, artifact, data, embedder, call>>

\* Step 1: this.query returns or throws; with results, checkOllamaStatus
\* sends its request.
Retrieve ==
  /\ pc = "RETRIEVE"
  /\ \E embedOk \in BOOLEAN :
       LET r == RAGQuery_query(data, embedder, embedOk, call.queryText, call.options[1])
       IN IF r.thrown
          THEN /\ Finish(r, "THROWN")
               /\ UNCHANGED <<ragResults, requests, stages>>
          ELSE /\ ragResults' = Val(r)
               /\ IF call.showRawResults /\ Len(Val(r)) > 0
                  THEN /\ pc' = "CHECK_SERVICE"
                       /\ requests' = <<Request("/api/tags")>>
                       /\ stages' = Append(stages, "CHECK_SERVICE")
                       /\ UNCHANGED <<outcome, terminal>>
                  ELSE IF Len(Val(r)) = 0
                  THEN /\ Finish(Return(EnhancementResult(<<>>, Null,
                                          Some(<<"No results found">>))), "FALLBACK")
                       /\ UNCHANGED <<requests, stages>>
                  ELSE /\ pc' = "CHECK_SERVICE"
                       /\ requests' = <<Request("/api/tags")>>
                       /\ stages' = Append(stages, "CHECK_SERVICE")
                       /\ UNCHANGED <<outcome, terminal>>
  /\ UNCHANGED <<buildVars, artifact, data, embedder, call>>

\* Step 2: the answer to checkOllamaStatus; when the model is there,
\* testModelGeneration sends its request.
CheckService ==
  /\ pc = "CHECK_SERVICE"
  /\ \E resp \in ProbeResponses :
       LET status == checkOllamaStatus(resp)
       IN /\ requests' = IF status.running /\ status.hasModel
                         THEN Append(Answered(requests, resp), Request("/api/generate"))
                         ELSE Answered(requests, resp)
          /\ IF ~ status.running
             THEN /\ Finish(Return(EnhancementResult(ragResults, Null, status.error)),
                            "FALLBACK")
                  /\ UNCHANGED stages
             ELSE IF ~ status.hasModel
             THEN /\ Finish(Return(EnhancementResult(ragResults, Null,
                                     Some(<<"Model not found">>))), "FALLBACK")
                  /\ UNCHANGED stages
             ELSE /\ pc' = "TEST_MODEL"
                  /\ stages' = Append(stages, "TEST_MODEL")
                  /\ UNCHANGED <<outcome, terminal>>
  /\ UNCHANGED <<buildVars, artifact, data, embedder, call, ragResults>>

\* Step 3 sending the trial request again, until the model answers.
TestModel_Retry ==
  /\ pc = "TEST_MODEL"
  /\ \E resp \in GenerateResponses :
       LET modelWorks == testModelGeneration(resp)
           prompt == BuildPrompt(call.queryText, ragResults)
       IN IF ~ modelWorks
          THEN /\ requests' = Answered(requests, resp)
               /\ UNCHANGED <<pc, outcome, terminal, stages>>
          ELSE IF prompt.thrown
          THEN /\ Finish(Return(EnhancementResult(ragResults, Null, prompt.error)),
                         "FALLBACK")
               /\ requests' = Answered(requests, resp)
               /\ stages' = Append(stages, "BUILD_CONTEXT")
          ELSE /\ pc' = "GENERATE"
               /\ requests' = Append(Answered(requests, resp), Request("/api/generate"))
               /\ stages' = stages \o <<"BUILD_CONTEXT", "GENERATE">>
               /\ UNCHANGED <<outcome, terminal>>
  /\ UNCHANGED <<buildVars, artifact, data, embedder, call, ragResults>>

\* Step 3: the answer to testModelGeneration; when the model works,
\* enhanceWithLLM builds the prompt and sends the generation request.
TestModel ==
  /\ pc = "TEST_MODEL"
  /\ \E resp \in GenerateResponses :
       LET modelWorks == testModelGeneration(resp)
           prompt == BuildPrompt(call.queryText, ragResults)
       IN IF ~ modelWorks
          THEN /\ Finish(Return(EnhancementResult(ragResults, Null,
                                  Some(<<"Model not responding">>))), "FALLBACK")
               /\ requests' = Answered(requests, resp)
               /\ UNCHANGED stages
          ELSE IF prompt.thrown
          THEN /\ Finish(Return(EnhancementResult(ragResults, Null, prompt.error)),
                         "FALLBACK")
               /\ requests' = Answered(requests, resp)
               /\ stages' = Append(stages, "BUILD_CONTEXT")
          ELSE /\ pc' = "GENERATE"
               /\ requests' = Append(Answered(requests, resp), Request("/api/generate"))
               /\ stages' = stages \o <<"BUILD_CONTEXT", "GENERATE">>
               /\ UNCHANGED <<outcome, terminal>>
  /\ UNCHANGED <<buildVars, artifact, data, embedder, call, ragResults>>

\* Step 4 without the try/catch around enhanceWithLLM.
Generate_NoCatch ==
  /\ pc = "GENERATE"
  /\ \E resp \in GenerateResponses :
       LET r == enhanceWithLLM(call.queryText, ragResults, resp)
       IN /\ requests' = Answered(requests, resp)
          /\ IF r.thrown
             THEN Finish(r, "THROWN")
             ELSE Finish(Return(EnhancementResult(ragResults, r.value, Null)), "AUGMENTED")
  /\ UNCHANGED <<buildVars, artifact, data, embedder, call, ragResults, stages>>

\* Step 4 sending the generation request once more when it failed.
Generate_Retry ==
  /\ pc = "GENERATE"
  /\ \E resp \in GenerateResponses :
       LET r == enhanceWithLLM(call.queryText, ragResults, resp)
       IN IF r.thrown /\ Len(requests) = 3
          THEN /\ requests' = Append(Answered(requests, resp), Request("/api/generate"))
               /\ UNCHANGED <<pc, outcome, terminal>>
          ELSE /\ requests' = Answered(requests, resp)
               /\ IF r.thrown
                  THEN Finish(Return(EnhancementResult(ragResults, Null, r.error)),
                              "FALLBACK")
                  ELSE Finish(Return(EnhancementResult(ragResults, r.value, Null)),
                              "AUGMENTED")
  /\ UNCHANGED <<buildVars, artifact, data, embedder, call, ragResults, stages>>

\* Step 4: the answer to the generation request of enhanceWithLLM.
Generate ==
  /\ pc = "GENERATE"
  /\ \E resp \in GenerateResponses :
       LET r == enhanceWithLLM(call.queryText, ragResults, resp)
       IN /\ requests' = Answered(requests, resp)
          /\ IF r.thrown
             THEN Finish(Return(EnhancementResult(ragResults, Null, r.error)), "FALLBACK")
             ELSE Finish(Return(EnhancementResult(ragResults, r.value, Null)), "AUGMENTED")
  /\ UNCHANGED <<buildVars, artifact, data, embedder, call, ragResults, stages>>

\* The caller has used the outcome of its call and goes on to its next
\* call on the same object; nothing of the finished call remains.
NextCall ==
  /\ pc = "returned"
  /\ pc' = "ready"
  /\ call' = NoCall
  /\ outcome' = NoOutcome
  /\ ragResults' = <<>>
  /\ requests' = <<>>
  /\ stages' = <<>>
  /\ terminal' = "none"
  /\ UNCHANGED <<buildVars, artifact, data, embedder>>

Next ==
  \/ Initialize
  \/ Query
  \/ EnhancedQuery
  \/ Retrieve
  \/ CheckService
  \/ TestModel
  \/ Generate
  \/ NextCall

Spec == Init /\ [][Next]_vars

\* Every await of enhancedQuery is answered: the embedder returns or throws,
\* and each fetch carries a timeout.
FairSpec ==
  /\ Init /\ [][Next]_vars
  /\ WF_vars(Retrieve) /\ WF_vars(CheckService) /\ WF_vars(TestModel) /\ WF_vars(Generate)

(***************************************************************************)
(* One SimpleVectorStore handle and the calls made on it within one        *)
(* process.  No method of the store awaits anything, so each call runs to  *)
(* its end before any other code of the process runs.                      *)
(***************************************************************************)
\* The chunks add() is called with.
AddPool == {c \in ChunkPool : c.id \in {"a.test.js", "b.json"}}

\* The arguments of add(): the four arrays of a chunk sequence, all of one
\* length or with one of them an element short.
Short(s) == SubSeq(s, 1, Len(s) - 1)
AddArgs ==
  LET seqs == {s \in ChunkSeqs(MaxDocs) : Range(s) \subseteq AddPool}
  IN {Snapshot(s) : s \in seqs}
     \cup {[Snapshot(s) EXCEPT !.embeddings = Short(@)] : s \in seqs \ {<<>>}}
     \cup {[Snapshot(s) EXCEPT !.documents = Short(@)] : s \in seqs \ {<<>>}}

\* The artifact a handle is constructed over.
StoreArtifacts ==
  {a \in Artifacts : a.kind = "parseable" /\ StoreFields \subseteq a.json.fields
                       => a.json.ids \in {<<>>, <<"c.yml">>, <<"c.yml", "d.js">>}}

StoreQueries ==
  [queryEmbedding : {Embed(q) : q \in QueryTexts}, limit : {1, DefaultLimit},
   where : {[key \in keys |-> "config"] : keys \in {{}, {"content_type"}}}]

StoreNoCall == [op |-> "none", args |-> Null]

StoreInit ==
  /\ artifact \in StoreArtifacts
  /\ data = EmptyData
  /\ embedder = "null"
  /\ pc = "new"
  /\ call = StoreNoCall
  /\ outcome = NoOutcome
  /\ ragResults = <<>>
  /\ requests = <<>>
  /\ stages = <<>>
  /\ terminal = "none"
  /\ replaced = <<>>
  /\ fsys = NoFiles
  /\ builder = NoBuilder

\* What no call on the store touches.
storeIdle == <<embedder, ragResults, requests, stages, terminal, fsys, builder>>

\* The owner of the handle awaits initialize().
Load ==
  /\ pc = "new"
  /\ data' = VectorStore_initialize(artifact, data)
  /\ call' = [op |-> "initialize", args |-> Null]
  /\ outcome' = Return(Null)
  /\ pc' = "returned"
  /\ UNCHANGED <<artifact, replaced, storeIdle>>

\* add() storing the documents and embeddings in place, awaiting, and
\* storing the metadata and ids when it is resumed.
Add_InPlace ==
  \/ /\ pc = "ready"
     /\ IF replaced = <<>> THEN TRUE ELSE data = replaced[2]
     /\ StoreFields \subseteq data.fields
     /\ \E args \in AddArgs :
          /\ data' = [data EXCEPT !.documents = args.documents,
                                  !.embeddings = args.embeddings]
          /\ replaced' = <<data, args>>
     /\ UNCHANGED <<artifact, pc, call, outcome, storeIdle>>
  \/ /\ pc = "ready"
     /\ replaced # <<>> /\ data # replaced[2]
     /\ data' = replaced[2]
     /\ artifact' = JSON_stringify(replaced[2])
     /\ call' = [op |-> "add", args |-> Some(replaced[2])]
     /\ outcome' = Return(Null)
     /\ pc' = "returned"
     /\ UNCHANGED <<replaced, storeIdle>>

\* A caller awaits add(documents, embeddings, metadata, ids).
Add ==
  /\ pc = "ready"
  /\ \E args \in AddArgs, write \in WriteResults :
       LET r == VectorStore_add(data, artifact, args.documents, args.embeddings,
                                args.metadata, args.ids, write)
       IN /\ data' = r.data
          /\ artifact' = r.artifact
          /\ outcome' = r.outcome
          /\ call' = [op |-> "add", args |-> Some(args)]
          /\ replaced' = <<data, r.data>>
  /\ pc' = "returned"
  /\ UNCHANGED storeIdle

\* A caller awaits count().
Count ==
  /\ pc = "ready"
  /\ call' = [op |-> "count", args |-> Null]
  /\ outcome' = VectorStore_count(data)
  /\ pc' = "returned"
  /\ UNCHANGED <<artifact, data, replaced, storeIdle>>

\* A caller awaits get({limit}).
Get ==
  /\ pc = "ready"
  /\ \E limit \in {Null, Some(1)} :
       /\ call' = [op |-> "get", args |-> Some(limit)]
       /\ outcome' = VectorStore_get(data, limit)
  /\ pc' = "returned"
  /\ UNCHANGED <<artifact, data, replaced, storeIdle>>

\* A caller awaits query(queryEmbedding, limit, where).
StoreQuery ==
  /\ pc = "ready"
  /\ \E q \in StoreQueries :
       /\ call' = [op |-> "query", args |-> Some(q)]
       /\ outcome' = VectorStore_query(data, q.queryEmbedding, q.limit, q.where)
  /\ pc' = "returned"
  /\ UNCHANGED <<artifact, data, replaced, storeIdle>>

\* The caller has used what its call gave; the next call can be made.
StoreNextCall ==
  /\ pc = "returned"
  /\ pc' = "ready"
  /\ call' = StoreNoCall
  /\ outcome' = NoOutcome
  /\ UNCHANGED <<artifact, data, replaced, storeIdle>>

StoreNext ==
  \/ Load
  \/ Add
  \/ Count
  \/ Get
  \/ StoreQuery
  \/ StoreNextCall

StoreSpec == StoreInit /\ [][StoreNext]_vars

(***************************************************************************)
(* CodebaseRAGBuilder: the chunker.                                        *)
(*                                                                         *)
(* A file's content is the sequence of its lines (content.split('\n')), a  *)
(* line being its number of characters and whether it is whitespace only;  *)
(* a line that is not begins and ends with a character that is not         *)
(* whitespace.  The text held in currentChunk is a sequence of lines, each  *)
(* followed by '\n'.                                                       *)
(***************************************************************************)
MaxLines == 4         \* most lines of a file content

maxChunkSize == 2000  \* const maxChunkSize = 2000; // characters

\* `has`: the substrings getContentType looks for that the line contains.
CodeLine(n, has) == [chars |-> n, blank |-> FALSE, has |-> has]
Line(n, blank) == [chars |-> n, blank |-> blank, has |-> {}]
LinePool ==
  {Line(0, TRUE), Line(3, TRUE), Line(700, FALSE), Line(1299, FALSE), Line(1300, FALSE),
   Line(2500, FALSE)}

Contents == UNION {[1..n -> LinePool] : n \in 1..MaxLines}

RECURSIVE SumChars(_)
SumChars(lines) == IF lines = <<>> THEN 0 ELSE lines[1].chars + SumChars(Tail(lines))

\* content.length: the lines and the '\n' between them
ContentLength(lines) == SumChars(lines) + Len(lines) - 1
\* currentChunk.length: the lines, each with its '\n'
BufferLength(lines) == SumChars(lines) + Len(lines)

\* String.prototype.trim on the lines of a text: the whitespace-only lines
\* at its start and at its end go.
RECURSIVE TrimLinesStart(_)
TrimLinesStart(lines) ==
  IF lines # <<>> /\ lines[1].blank THEN TrimLinesStart(Tail(lines)) ELSE lines
RECURSIVE TrimLinesEnd(_)
TrimLinesEnd(lines) ==
  IF lines # <<>> /\ lines[Len(lines)].blank
  THEN TrimLinesEnd(SubSeq(lines, 1, Len(lines) - 1)) ELSE lines
TrimLines(lines) == TrimLinesEnd(TrimLinesStart(lines))

\* The loop with startLine left at 1 when a chunk is closed.
RECURSIVE SplitLoop_NoRestart(_, _, _, _, _, _)
SplitLoop_NoRestart(lines, max, currentLine, chunks, currentChunk, startLine) ==
  IF currentLine > Len(lines)
  THEN IF TrimLines(currentChunk) # <<>>
       THEN Append(chunks, [content |-> TrimLines(currentChunk),
                            startLine |-> startLine, endLine |-> Len(lines)])
       ELSE chunks
  ELSE
    LET line == lines[currentLine]
    IN IF BufferLength(currentChunk) + line.chars > max /\ BufferLength(currentChunk) > 0
       THEN SplitLoop_NoRestart(lines, max, currentLine + 1,
                      Append(chunks, [content |-> TrimLines(currentChunk),
                                      startLine |-> startLine,
                                      endLine |-> currentLine - 1]),
                      <<line>>, startLine)
       ELSE SplitLoop_NoRestart(lines, max, currentLine + 1, chunks,
                      Append(currentChunk, line), startLine)

\* The loop closing a chunk at the line that opens the next one.
RECURSIVE SplitLoop_EndAtCurrent(_, _, _, _, _, _)
SplitLoop_EndAtCurrent(lines, max, currentLine, chunks, currentChunk, startLine) ==
  IF currentLine > Len(lines)
  THEN IF TrimLines(currentChunk) # <<>>
       THEN Append(chunks, [content |-> TrimLines(currentChunk),
                            startLine |-> startLine, endLine |-> Len(lines)])
       ELSE chunks
  ELSE
    LET line == lines[currentLine]
    IN IF BufferLength(currentChunk) + line.chars > max /\ BufferLength(currentChunk) > 0
       THEN SplitLoop_EndAtCurrent(lines, max, currentLine + 1,
                      Append(chunks, [content |-> TrimLines(currentChunk),
                                      startLine |-> startLine,
                                      endLine |-> currentLine]),
                      <<line>>, currentLine)
       ELSE SplitLoop_EndAtCurrent(lines, max, currentLine + 1, chunks,
                      Append(currentChunk, line), startLine)

\* The loop closing a chunk once the buffer has grown over the chunk size.
RECURSIVE SplitLoop_CloseAfterExceeding(_, _, _, _, _, _)
SplitLoop_CloseAfterExceeding(lines, max, currentLine, chunks, currentChunk, startLine) ==
  IF currentLine > Len(lines)
  THEN IF TrimLines(currentChunk) # <<>>
       THEN Append(chunks, [content |-> TrimLines(currentChunk),
                            startLine |-> startLine, endLine |-> Len(lines)])
       ELSE chunks
  ELSE
    LET line == lines[currentLine]
    IN IF BufferLength(currentChunk) > max
       THEN SplitLoop_CloseAfterExceeding(lines, max, currentLine + 1,
                      Append(chunks, [content |-> TrimLines(currentChunk),
                                      startLine |-> startLine,
                                      endLine |-> currentLine - 1]),
                      <<line>>, currentLine)
       ELSE SplitLoop_CloseAfterExceeding(lines, max, currentLine + 1, chunks,
                      Append(currentChunk, line), startLine)

\* The loop over the lines (122-135) and the trailing buffer (137-143).
RECURSIVE SplitLoop(_, _, _, _, _, _)
SplitLoop(lines, max, currentLine, chunks, currentChunk, startLine) ==
  IF currentLine > Len(lines)
  THEN IF TrimLines(currentChunk) # <<>>
       THEN Append(chunks, [content |-> TrimLines(currentChunk),
                            startLine |-> startLine, endLine |-> Len(lines)])
       ELSE chunks
  ELSE
    LET line == lines[currentLine]
    IN IF BufferLength(currentChunk) + line.chars > max /\ BufferLength(currentChunk) > 0
       THEN SplitLoop(lines, max, currentLine + 1,
                      Append(chunks, [content |-> TrimLines(currentChunk),
                                      startLine |-> startLine,
                                      endLine |-> currentLine - 1]),
                      <<line>>, currentLine)
       ELSE SplitLoop(lines, max, currentLine + 1, chunks,
                      Append(currentChunk, line), startLine)

splitIntoChunks_NoRestart(content, max) ==
  IF ContentLength(content) <= max
  THEN <<[content |-> content, startLine |-> 1, endLine |-> Len(content)]>>
  ELSE SplitLoop_NoRestart(content, max, 1, <<>>, <<>>, 1)

splitIntoChunks_EndAtCurrent(content, max) ==
  IF ContentLength(content) <= max
  THEN <<[content |-> content, startLine |-> 1, endLine |-> Len(content)]>>
  ELSE SplitLoop_EndAtCurrent(content, max, 1, <<>>, <<>>, 1)

splitIntoChunks_CloseAfterExceeding(content, max) ==
  IF ContentLength(content) <= max
  THEN <<[content |-> content, startLine |-> 1, endLine |-> Len(content)]>>
  ELSE SplitLoop_CloseAfterExceeding(content, max, 1, <<>>, <<>>, 1)

\* splitIntoChunks(content, filePath), for the chunk size max (the code's is
\* maxChunkSize).
splitIntoChunks(content, max) ==
  IF ContentLength(content) <= max
  THEN <<[content |-> content, startLine |-> 1, endLine |-> Len(content)]>>
  ELSE SplitLoop(content, max, 1, <<>>, <<>>, 1)

\* The chunker called on a file content.
ChunkSizes == {700, maxChunkSize, 4000}

ChunkInit ==
  /\ call \in [op : {"splitIntoChunks"}, content : Contents, max : ChunkSizes]
  /\ pc = "ready"
  /\ outcome = NoOutcome
  /\ artifact = [kind |-> "missing", json |-> EmptyData]
  /\ data = EmptyData
  /\ embedder = "null"
  /\ ragResults = <<>>
  /\ requests = <<>>
  /\ stages = <<>>
  /\ terminal = "none"
  /\ replaced = <<>>
  /\ fsys = NoFiles
  /\ builder = NoBuilder

Chunk ==
  /\ pc = "ready"
  /\ outcome' = Return(splitIntoChunks(call.content, call.max))
  /\ pc' = "returned"
  /\ UNCHANGED <<buildVars, artifact, data, embedder, call, ragResults, requests, stages,
                 terminal>>

ChunkSpec == ChunkInit /\ [][Chunk]_vars

(***************************************************************************)
(* CodebaseRAGBuilder: the walk.                                           *)
(*                                                                         *)
(* A file or directory name is the sequence of its parts between dots     *)
(* ("index.js" is <<"index", "js">>, ".git" is <<"", "git">>); a path is    *)
(* the sequence of its names, an absolute path starting at "/".            *)
(***************************************************************************)
MaxEntries == 2       \* most entries of the directory codebaseRoot

\* path.extname(filePath) without its dot: the part after the last dot of
\* the last name; none when there is no dot or the only dot comes first.
ExtName(path) ==
  LET name == path[Len(path)]
  IN IF Len(name) < 2 \/ (Len(name) = 2 /\ name[1] = "") THEN "" ELSE name[Len(name)]

\* String.prototype.toLowerCase, on the extensions of the model.
ToLowerCase(s) ==
  CASE s = "JS" -> "js" [] s = "MD" -> "md" [] s = "JSON" -> "json" [] OTHER -> s

excludeDirs ==
  { << <<"node_modules">> >>, << <<"", "git">> >>, << <<"rag">>, <<"node_modules">> >>,
    << <<"coverage">> >>, << <<"", "nyc_output">> >>, << <<"dist">> >>, << <<"build">> >> }
includeExtensions == {"js", "json", "md", "yml", "yaml", "sh", "py", "html", "css", "txt"}

\* filePath.includes(`/${dir}/`): the names of dir follow one another in
\* the path and a further name comes after them.
IncludesDir(filePath, dir) ==
  \E i \in 1..Len(filePath) :
    /\ i + Len(dir) - 1 < Len(filePath)
    /\ SubSeq(filePath, i, i + Len(dir) - 1) = dir

\* shouldIncludeFile(filePath), on the absolute path of the file.
shouldIncludeFile(filePath) ==
  IF \E dir \in excludeDirs : IncludesDir(filePath, dir) THEN FALSE
  ELSE ToLowerCase(ExtName(filePath)) \in includeExtensions

\* content.includes(s)
Includes(content, s) == \E i \in 1..Len(content) : s \in content[i].has

\* filePath.includes('package.json')
IncludesPackageJson(filePath) ==
  \E i \in 1..Len(filePath) : \E j \in 1..(Len(filePath[i]) - 1) :
    filePath[i][j] = "package" /\ filePath[i][j + 1] = "json"

\* getContentType testing the test signatures before the routes.
getContentType_TestFirst(filePath, content) ==
  LET ext == ToLowerCase(ExtName(filePath))
  IN CASE ext = "js" ->
            IF Includes(content, "describe(") \/ Includes(content, "test(") THEN "test"
            ELSE IF Includes(content, "app.get(") \/ Includes(content, "app.post(") THEN "api_route"
            ELSE IF Includes(content, "module.exports") THEN "module"
            ELSE "javascript"
       [] ext = "json" -> IF IncludesPackageJson(filePath) THEN "package_config" ELSE "config"
       [] ext = "md" -> "documentation"
       [] ext \in {"yml", "yaml"} -> "config"
       [] ext = "sh" -> "script"
       [] ext = "py" -> "python"
       [] ext = "html" -> "template"
       [] ext = "css" -> "stylesheet"
       [] OTHER -> "text"

\* getContentType(filePath, content)
getContentType(filePath, content) ==
  LET ext == ToLowerCase(ExtName(filePath))
  IN CASE ext = "js" ->
            IF Includes(content, "app.get(") \/ Includes(content, "app.post(") THEN "api_route"
            ELSE IF Includes(content, "describe(") \/ Includes(content, "test(") THEN "test"
            ELSE IF Includes(content, "module.exports") THEN "module"
            ELSE "javascript"
       [] ext = "json" -> IF IncludesPackageJson(filePath) THEN "package_config" ELSE "config"
       [] ext = "md" -> "documentation"
       [] ext \in {"yml", "yaml"} -> "config"
       [] ext = "sh" -> "script"
       [] ext = "py" -> "python"
       [] ext = "html" -> "template"
       [] ext = "css" -> "stylesheet"
       [] OTHER -> "text"

\* The loop giving every chunk the relative path as id.
RECURSIVE PushChunks_PlainIds(_, _, _, _, _)
PushChunks_PlainIds(b, filePath, relativePath, chunks, i) ==
  IF i > Len(chunks) THEN b
  ELSE PushChunks_PlainIds(
         [b EXCEPT
            !.documents = Append(@, chunks[i].content),
            !.metadata = Append(@, [file_path |-> relativePath,
                                    file_type |-> ExtName(filePath),
                                    chunk_index |-> i - 1,
                                    total_chunks |-> Len(chunks),
                                    start_line |-> chunks[i].startLine,
                                    end_line |-> chunks[i].endLine,
                                    content_type |-> getContentType(filePath, chunks[i].content)]),
            !.ids = Append(@, [file_path |-> relativePath, chunk |-> 0])],
         filePath, relativePath, chunks, i + 1)

\* The loop of processFile over the chunks of one file: what it pushes on
\* documents, metadata and ids.  An id is the relative path and, for a file
\* of several chunks, the number after ":chunk" (0: no suffix).
RECURSIVE PushChunks(_, _, _, _, _)
PushChunks(b, filePath, relativePath, chunks, i) ==
  IF i > Len(chunks) THEN b
  ELSE PushChunks(
         [b EXCEPT
            !.documents = Append(@, chunks[i].content),
            !.metadata = Append(@, [file_path |-> relativePath,
                                    file_type |-> ExtName(filePath),
                                    chunk_index |-> i - 1,
                                    total_chunks |-> Len(chunks),
                                    start_line |-> chunks[i].startLine,
                                    end_line |-> chunks[i].endLine,
                                    content_type |-> getContentType(filePath, chunks[i].content)]),
            !.ids = Append(@, [file_path |-> relativePath,
                               chunk |-> IF Len(chunks) = 1 THEN 0 ELSE i])],
         filePath, relativePath, chunks, i + 1)

\* processFile(filePath): an exception of readFileSync is caught and the file
\* skipped.
processFile(b, root, relativePath, entry) ==
  IF ~ entry.read THEN b
  ELSE PushChunks(b, root \o relativePath, relativePath,
                  splitIntoChunks(entry.content, maxChunkSize), 1)

StatError == <<"ENOENT: no such file or directory, stat">>
ReaddirError == <<"EACCES: permission denied, scandir">>

\* if (item === 'node_modules' || item === '.git' || item.startsWith('.'))
SkippedEarly(item) == item = <<"node_modules">> \/ item = <<"", "git">> \/ item[1] = ""

\* The loop of processDirectory(dirPath) over `items`, from item i on, dirPath
\* being codebaseRoot followed by relativePath: the arrays of the builder
\* after it and what it returns or throws.  statSync and the readdirSync of
\* a subdirectory are outside any try.
RECURSIVE ProcessItems(_, _, _, _, _)
ProcessItems(b, root, relativePath, items, i) ==
  IF i > Len(items) THEN [builder |-> b, outcome |-> Return(Null)]
  ELSE
    LET item == items[i]
        fullPath == root \o relativePath \o <<item.name>>
    IN IF SkippedEarly(item.name) THEN ProcessItems(b, root, relativePath, items, i + 1)
       ELSE IF ~ item.stat THEN [builder |-> b, outcome |-> Throw(StatError)]
       ELSE IF item.kind = "dir"
       THEN IF ~ item.read THEN [builder |-> b, outcome |-> Throw(ReaddirError)]
            ELSE LET sub == ProcessItems(b, root, Append(relativePath, item.name),
                                         item.items, 1)
                 IN IF sub.outcome.thrown THEN sub
                    ELSE ProcessItems(sub.builder, root, relativePath, items, i + 1)
       ELSE IF shouldIncludeFile(fullPath)
       THEN ProcessItems(processFile(b, root, Append(relativePath, item.name), item),
                         root, relativePath, items, i + 1)
       ELSE ProcessItems(b, root, relativePath, items, i + 1)

\* processDirectory(): the walk from codebaseRoot.
processDirectory(b, files) == ProcessItems(b, files.root, <<>>, files.items, 1)

\* The embedding model on a chunk: a normalized vector, the same for the
\* same text.
DocEmbedding(doc) == IF Includes(doc, "describe(") THEN <<3, 4>> ELSE <<4, 3>>

\* buildEmbeddings() swallowing the exception of the embedder: the chunk
\* it failed on gets no embedding.
buildEmbeddings_SkipFailed(documents, failAt) ==
  Return([i \in 1..(IF failAt = 0 THEN Len(documents) ELSE Len(documents) - 1) |->
            DocEmbedding(documents[IF failAt # 0 /\ i >= failAt THEN i + 1 ELSE i])])

\* buildEmbeddings() pushing the embeddings in front of those it has.
buildEmbeddings_Reversed(documents, failAt) ==
  IF failAt # 0 THEN Throw(EmbedderError)
  ELSE Return([i \in 1..Len(documents) |-> DocEmbedding(documents[Len(documents) + 1 - i])])

\* buildEmbeddings(): the embedder is awaited for one document after the
\* other; it throws on document failAt (0: on none).
buildEmbeddings(documents, failAt) ==
  IF failAt # 0 THEN Throw(EmbedderError)
  ELSE Return([i \in 1..Len(documents) |-> DocEmbedding(documents[i])])

\* The calls buildEmbeddings() makes to the embedder, in their order: one
\* for each document up to the one the embedder throws on.
EmbedRequests(documents, failAt) ==
  [i \in 1..(IF failAt = 0 THEN Len(documents) ELSE failAt) |->
     [to |-> "embedder", doc |-> documents[i]]]
\* The call storeInVectorDB() makes to the store.
AddRequest == [to |-> "vectorStore.add", doc |-> <<>>]

\* The entries of a directory as readdirSync gives them: `stat` is whether
\* statSync returns for the entry, `read` whether readFileSync (a file) or
\* readdirSync (a directory) does.
File(name, stat, read, content) ==
  [name |-> name, kind |-> "file", stat |-> stat, read |-> read, content |-> content,
   items |-> <<>>]
Dir(name, stat, read, items) ==
  [name |-> name, kind |-> "dir", stat |-> stat, read |-> read, content |-> <<>>,
   items |-> items]

ModuleJs == <<CodeLine(20, {"module.exports"}), Line(0, TRUE)>>
RoutesAndTestsJs == <<CodeLine(1300, {"app.get("}), CodeLine(1300, {"describe("})>>
PlainText == <<CodeLine(30, {})>>

EntryPool ==
  { File(<<"index", "js">>, TRUE, TRUE, ModuleJs),
    File(<<"index", "js">>, TRUE, FALSE, ModuleJs),
    File(<<"index", "js">>, FALSE, TRUE, ModuleJs) }
  \cup { File(<<"big", "js">>, TRUE, TRUE, RoutesAndTestsJs),
         File(<<"README", "MD">>, TRUE, TRUE, PlainText),
         File(<<"logo", "png">>, TRUE, TRUE, PlainText),
         File(<<"", "eslintrc", "json">>, TRUE, TRUE, PlainText) }
  \cup { Dir(<<"src">>, FALSE, TRUE, <<>>), Dir(<<"src">>, TRUE, FALSE, <<>>),
         Dir(<<"src">>, TRUE, TRUE, <<>>),
         Dir(<<"src">>, TRUE, TRUE, <<File(<<"app", "js">>, TRUE, TRUE, ModuleJs)>>),
         Dir(<<"src">>, TRUE, TRUE, <<File(<<"app", "js">>, TRUE, FALSE, ModuleJs)>>),
         Dir(<<"src">>, TRUE, TRUE, <<File(<<"app", "js">>, FALSE, TRUE, ModuleJs)>>) }
  \cup { Dir(name, TRUE, TRUE, <<File(<<"out", "js">>, TRUE, TRUE, ModuleJs)>>) :
           name \in {<<"dist">>, <<"build">>, <<"node_modules">>} }
  \cup { Dir(<<"", "github">>, TRUE, TRUE, <<File(<<"ci", "yml">>, TRUE, TRUE, PlainText)>>) }

\* The listings of codebaseRoot: entries of different names, in any order.
Listings ==
  UNION { { s \in [1..n -> EntryPool] : \A i, j \in 1..n : s[i].name = s[j].name => i = j }
          : n \in 0..MaxEntries }

\* codebaseRoot = path.resolve(__dirname, '..'): where the repository is
\* checked out.
Roots ==
  { << <<"home">>, <<"user">>, <<"app">> >>, << <<"home">>, <<"build">>, <<"app">> >> }

FileSystems == [root : Roots, items : Listings]

BuildArtifacts ==
  {a \in Artifacts : a.kind = "parseable" => a.json.ids \in {<<"c.yml">>}}

BuildInit ==
  /\ fsys \in FileSystems
  /\ artifact \in BuildArtifacts
  /\ builder = NoBuilder
  /\ data = EmptyData
  /\ embedder = "null"
  /\ pc = "new"
  /\ call = [op |-> "build", args |-> Null]
  /\ outcome = NoOutcome
  /\ ragResults = <<>>
  /\ requests = <<>>
  /\ stages = <<>>
  /\ terminal = "none"
  /\ replaced = <<>>

\* What no step of a build touches.
buildIdle == <<call, ragResults, stages, terminal, fsys>>

\* build() fails: the catch logs the error and throws it again.
BuildFails(error) ==
  /\ pc' = "failed"
  /\ outcome' = error

\* build(): await this.initialize().  The store is constructed and loaded,
\* then the embedding model.
BuildInitialize ==
  /\ pc = "new"
  /\ data' = VectorStore_initialize(artifact, EmptyData)
  /\ \E pipelineOk \in BOOLEAN :
       IF pipelineOk
       THEN embedder' = "loaded" /\ pc' = "processDirectory" /\ UNCHANGED outcome
       ELSE embedder' = "null" /\ BuildFails(Throw(PipelineError))
  /\ UNCHANGED <<artifact, replaced, builder, requests, buildIdle>>

\* build(): await this.processDirectory()
ProcessDirectory ==
  /\ pc = "processDirectory"
  /\ LET walk == processDirectory(builder, fsys)
     IN /\ builder' = walk.builder
        /\ IF walk.outcome.thrown THEN BuildFails(walk.outcome)
           ELSE pc' = "buildEmbeddings" /\ UNCHANGED outcome
  /\ UNCHANGED <<artifact, data, embedder, replaced, requests, buildIdle>>

\* build(): const embeddings = await this.buildEmbeddings()
BuildEmbeddings ==
  /\ pc = "buildEmbeddings"
  /\ \E failAt \in 0..Len(builder.documents) :
       LET embeddings == buildEmbeddings(builder.documents, failAt)
       IN /\ requests' = requests \o EmbedRequests(builder.documents, failAt)
          /\ IF embeddings.thrown
             THEN BuildFails(embeddings) /\ UNCHANGED builder
             ELSE /\ builder' = [builder EXCEPT !.embeddings = Val(embeddings)]
                  /\ pc' = "storeInVectorDB"
                  /\ UNCHANGED outcome
  /\ UNCHANGED <<artifact, data, embedder, replaced, buildIdle>>

\* build(): await this.storeInVectorDB(embeddings), then the summary.
StoreInVectorDB ==
  /\ pc = "storeInVectorDB"
  /\ \E write \in WriteResults :
       LET r == VectorStore_add(data, artifact, builder.documents, builder.embeddings,
                                builder.metadata, builder.ids, write)
       IN /\ data' = r.data
          /\ artifact' = r.artifact
          /\ replaced' = <<data, r.data>>
          /\ requests' = Append(requests, AddRequest)
          /\ IF r.outcome.thrown THEN BuildFails(r.outcome)
             ELSE pc' = "done" /\ outcome' = Return(Null)
  /\ UNCHANGED <<embedder, builder, buildIdle>>

BuildNext ==
  \/ BuildInitialize
  \/ ProcessDirectory
  \/ BuildEmbeddings
  \/ StoreInVectorDB

BuildSpec == BuildInit /\ [][BuildNext]_vars

\* build() called again on the same builder, after a build that succeeded
\* or failed: the constructor alone empties this.documents, this.metadata
\* and this.ids, so they are what the build before left; `stages` keeps how
\* the builds before ended.
MaxBuilds == 2        \* most calls of build() on one builder

BuildAgain ==
  /\ pc \in {"done", "failed"}
  /\ Len(stages) < MaxBuilds - 1
  /\ stages' = Append(stages, pc)
  /\ pc' = "new"
  /\ outcome' = NoOutcome
  /\ builder' = [builder EXCEPT !.embeddings = <<>>]
  /\ UNCHANGED <<artifact, data, embedder, replaced, requests, call, ragResults, terminal,
                 fsys>>

RebuildNext ==
  \/ BuildNext
  \/ BuildAgain

RebuildSpec == BuildInit /\ [][RebuildNext]_vars

(***************************************************************************)
(* CodebaseRAGBuilder: the classifier, called on the content of a chunk.   *)
(***************************************************************************)
\* The substrings getContentType looks for.
Signatures == {"app.get(", "app.post(", "describe(", "test(", "module.exports"}

\* Chunk contents: lines holding one of the signatures or none.
ClassifyContents ==
  UNION {[1..n -> {CodeLine(40, {})} \cup {CodeLine(40, {sig}) : sig \in Signatures}]
         : n \in 1..MaxLines}

\* filePath, as processFile passes it: the absolute path of the file.
ClassifyPaths ==
  { << <<"home">>, <<"user">>, <<"app">>, name >> :
      name \in {<<"index", "js">>, <<"App", "JS">>, <<"package", "json">>, <<"notes", "txt">>} }

ClassifyInit ==
  /\ call \in [op : {"getContentType"}, filePath : ClassifyPaths, content : ClassifyContents]
  /\ pc = "ready"
  /\ outcome = NoOutcome
  /\ stages = <<>>
  /\ artifact = [kind |-> "missing", json |-> EmptyData]
  /\ data = EmptyData
  /\ embedder = "null"
  /\ ragResults = <<>>
  /\ requests = <<>>
  /\ terminal = "none"
  /\ replaced = <<>>
  /\ fsys = NoFiles
  /\ builder = NoBuilder

\* getContentType called on the same arguments, a first and a second time;
\* `stages` keeps the labels returned.
Classify ==
  /\ Len(stages) < 2
  /\ outcome' = Return(getContentType(call.filePath, call.content))
  /\ stages' = Append(stages, getContentType(call.filePath, call.content))
  /\ pc' = "returned"
  /\ UNCHANGED <<buildVars, artifact, data, embedder, call, ragResults, requests, terminal>>

ClassifySpec == ClassifyInit /\ [][Classify]_vars

(***************************************************************************)
(* CodebaseRAGQuery.getStats.                                              *)
(*                                                                         *)
(* The metadata of the store is held as runs: `copies` chunks after one     *)
(* another with the same content_type and file_type, so that a store of     *)
(* more chunks than the sample getStats asks for is a small value.  The     *)
(* store holds as many documents as metadata.                              *)
(***************************************************************************)
MaxRuns == 3          \* most runs of chunks in the store
SampleLimit == 1000   \* this.vectorStore.get({ limit: 1000 })

RunPool ==
  [content_type : {"test", "module"}, file_type : {"js", "MD"}, copies : {1, 400, 700}]
StoreRuns == UNION {[1..n -> RunPool] : n \in 1..MaxRuns}

\* count(): this.data.documents.length
RECURSIVE CountRuns(_)
CountRuns(runs) == IF runs = <<>> THEN 0 ELSE runs[1].copies + CountRuns(Tail(runs))

\* get({ limit }): this.data.metadata.slice(0, limit), limit not being 0
RECURSIVE SliceRuns(_, _)
SliceRuns(runs, limit) ==
  IF runs = <<>> \/ limit <= 0 THEN <<>>
  ELSE IF runs[1].copies <= limit
       THEN <<runs[1]>> \o SliceRuns(Tail(runs), limit - runs[1].copies)
       ELSE <<[runs[1] EXCEPT !.copies = limit]>>

\* The loop of getStats over sample.metadatas: the count it ends with for
\* each value of the field.
RECURSIVE TallyOf(_, _, _)
TallyOf(sample, field, value) ==
  IF sample = <<>> THEN 0
  ELSE (IF sample[1][field] = value THEN sample[1].copies ELSE 0)
       + TallyOf(Tail(sample), field, value)
Tally(sample, field) ==
  [value \in {sample[i][field] : i \in 1..Len(sample)} |-> TallyOf(sample, field, value)]

\* getStats(): what it logs.
getStats(runs) ==
  LET sample == SliceRuns(runs, SampleLimit)
  IN [count |-> CountRuns(runs),
      contentTypes |-> Tally(sample, "content_type"),
      fileTypes |-> Tally(sample, "file_type")]

StatsInit ==
  /\ call \in [op : {"getStats"}, runs : StoreRuns]
  /\ pc = "ready"
  /\ outcome = NoOutcome
  /\ stages = <<>>
  /\ artifact = [kind |-> "missing", json |-> EmptyData]
  /\ data = EmptyData
  /\ embedder = "loaded"
  /\ ragResults = <<>>
  /\ requests = <<>>
  /\ terminal = "none"
  /\ replaced = <<>>
  /\ fsys = NoFiles
  /\ builder = NoBuilder

GetStats ==
  /\ pc = "ready"
  /\ outcome' = Return(getStats(call.runs))
  /\ pc' = "returned"
  /\ UNCHANGED <<buildVars, artifact, data, embedder, call, ragResults, requests, stages,
                 terminal>>

StatsSpec == StatsInit /\ [][GetStats]_vars

(***************************************************************************)
(* CodebaseRAGQuery: the operations that read the store, called one after   *)
(* the other on one handle.  The query texts of the categories and of the   *)
(* analyses are the short texts of QueryTexts.                             *)
(***************************************************************************)
queries == [category \in {"tests", "config", "deployment"} |->
              CASE category = "tests" -> "unit tests"
                [] category = "config" -> "configuration"
                [] OTHER -> "deployment"]
analyses == [analysis \in {"architecture", "security"} |-> "configuration"]
UnknownCategory == <<"Unknown category. Available: ">>
UnknownAnalysis == <<"Unknown analysis. Available: ">>

NoOptions == [limit |-> Null, contentType |-> Null, fileType |-> Null, includeCode |-> Null]

\* searchByCategory(category)
searchByCategory(d, emb, embedOk, category) ==
  IF category \notin DOMAIN queries THEN Throw(UnknownCategory)
  ELSE RAGQuery_query(d, emb, embedOk, queries[category], NoOptions)

\* analyze(analysis)
analyze(d, emb, embedOk, analysis) ==
  IF analysis \notin DOMAIN analyses THEN Throw(UnknownAnalysis)
  ELSE RAGQuery_query(d, emb, embedOk, analyses[analysis],
                      [NoOptions EXCEPT !.limit = Some(10)])

\* The metadata of a snapshot as runs of one chunk.
RunsOf(metadata) ==
  [i \in 1..Len(metadata) |->
     [content_type |-> metadata[i].content_type, file_type |-> metadata[i].file_type,
      copies |-> 1]]

SearchByCategory ==
  /\ pc = "ready"
  /\ \E category \in DOMAIN queries \cup {"unknown"}, embedOk \in BOOLEAN :
       /\ call' = [op |-> "searchByCategory", queryText |-> category, options |-> Null,
                   showRawResults |-> TRUE]
       /\ outcome' = searchByCategory(data, embedder, embedOk, category)
  /\ pc' = "returned"
  /\ UNCHANGED <<buildVars, artifact, data, embedder, ragResults, requests, stages, terminal>>

Analyze ==
  /\ pc = "ready"
  /\ \E analysis \in DOMAIN analyses \cup {"unknown"}, embedOk \in BOOLEAN :
       /\ call' = [op |-> "analyze", queryText |-> analysis, options |-> Null,
                   showRawResults |-> TRUE]
       /\ outcome' = analyze(data, embedder, embedOk, analysis)
  /\ pc' = "returned"
  /\ UNCHANGED <<buildVars, artifact, data, embedder, ragResults, requests, stages, terminal>>

Stats ==
  /\ pc = "ready"
  /\ call' = [op |-> "getStats", queryText |-> "", options |-> Null, showRawResults |-> TRUE]
  /\ outcome' = Return(getStats(RunsOf(data.metadata)))
  /\ pc' = "returned"
  /\ UNCHANGED <<buildVars, artifact, data, embedder, ragResults, requests, stages, terminal>>

ReadNext ==
  \/ Next
  \/ SearchByCategory
  \/ Analyze
  \/ Stats

ReadSpec == Init /\ [][ReadNext]_vars

(***************************************************************************)
(* SimpleVectorStore: one process in add() and another in initialize() on  *)
(* the same store file.                                                    *)
(*                                                                         *)
(* The text of the file is a sequence of tokens, each standing for a block  *)
(* of the same number of bytes in both snapshots: the braces and brackets,  *)
(* the four keys and the elements of the arrays.  An element is the array   *)
(* it was written in and the chunk it belongs to.  writeFileSync truncates  *)
(* the file when it opens it and then writes the text from its start;       *)
(* readFileSync reads from its own position until the end of the file.      *)
(* Neither locks the file, and add() writes to the store file itself.       *)
(*                                                                         *)
(* artifact.text is the file, replaced the snapshot on the file before and  *)
(* the one add() is called with, stages the text writeFileSync has still to *)
(* write, requests the text readFileSync has read, data the this.data of    *)
(* the process in initialize(), and pc the position of both processes.      *)
(***************************************************************************)
MaxTorn == 2          \* most chunks of a snapshot on the shared file

Token(t) == [t |-> t, key |-> "", elem |-> <<>>]
KeyToken(key) == [t |-> "key", key |-> key, elem |-> <<>>]
ElemToken(elem) == [t |-> "elem", key |-> "", elem |-> elem]

\* JSON.stringify(this.data, null, 2): the properties in the order add()
\* assigns them.
Section(key, array) ==
  <<KeyToken(key), Token("[")>> \o [i \in 1..Len(array) |-> ElemToken(array[i])]
  \o <<Token("]")>>
Serialize(d) ==
  <<Token("{")>> \o Section("documents", d.documents) \o Section("embeddings", d.embeddings)
  \o Section("metadata", d.metadata) \o Section("ids", d.ids) \o <<Token("}")>>

\* JSON.parse(rawData): an object of arrays, or a SyntaxError (ok is FALSE).
\* The first token from `from` on that is not an element, 0 without one.
FirstNonElem(tokens, from) ==
  LET rest == {j \in from..Len(tokens) : tokens[j].t # "elem"}
  IN IF rest = {} THEN 0 ELSE CHOOSE j \in rest : \A k \in rest : j <= k
RECURSIVE ParseObject(_, _, _)
ParseObject(tokens, pos, object) ==
  IF pos > Len(tokens) THEN [ok |-> FALSE, json |-> object]
  ELSE IF tokens[pos].t = "}" THEN [ok |-> pos = Len(tokens), json |-> object]
  ELSE IF tokens[pos].t # "key" THEN [ok |-> FALSE, json |-> object]
  ELSE IF pos + 1 > Len(tokens) THEN [ok |-> FALSE, json |-> object]
  ELSE IF tokens[pos + 1].t # "[" THEN [ok |-> FALSE, json |-> object]
  ELSE
    LET close == FirstNonElem(tokens, pos + 2)
    IN IF close = 0 THEN [ok |-> FALSE, json |-> object]
       ELSE IF tokens[close].t # "]" THEN [ok |-> FALSE, json |-> object]
       ELSE ParseObject(tokens, close + 1,
              [object EXCEPT !.fields = @ \cup {tokens[pos].key},
                             ![tokens[pos].key] =
                                [i \in 1..(close - pos - 2) |-> tokens[pos + 1 + i].elem]])
JSON_parse(tokens) ==
  IF tokens = <<>> THEN [ok |-> FALSE, json |-> GarbageData]
  ELSE IF tokens[1].t # "{" THEN [ok |-> FALSE, json |-> GarbageData]
  ELSE ParseObject(tokens, 2, GarbageData)

\* The snapshot of the chunks of the files named in s.
TornSnapshot(s) ==
  [fields |-> StoreFields,
   documents |-> [i \in 1..Len(s) |-> <<"document", s[i]>>],
   embeddings |-> [i \in 1..Len(s) |-> <<"embedding", s[i]>>],
   metadata |-> [i \in 1..Len(s) |-> <<"metadata", s[i]>>],
   ids |-> [i \in 1..Len(s) |-> <<"id", s[i]>>]]
TornSnapshots ==
  { TornSnapshot(s) :
      s \in UNION { { q \in [1..n -> {"a.js", "b.js"}] : \A i, j \in 1..n : q[i] = q[j] => i = j }
                    : n \in 1..MaxTorn } }

TornInit ==
  /\ replaced \in TornSnapshots \X TornSnapshots
  /\ artifact = [kind |-> "parseable", json |-> replaced[1], text |-> Serialize(replaced[1])]
  /\ data = EmptyData
  /\ pc = [writer |-> "add", reader |-> "initialize"]
  /\ stages = <<>>
  /\ requests = <<>>
  /\ call = [op |-> "add || initialize", args |-> Null]
  /\ outcome = NoOutcome
  /\ embedder = "null"
  /\ ragResults = <<>>
  /\ terminal = "none"
  /\ fsys = NoFiles
  /\ builder = NoBuilder

tornIdle == <<replaced, call, outcome, embedder, ragResults, terminal, fsys, builder>>

\* add(): this.data is assigned and writeFileSync opens the file, which
\* truncates it.
AddOpen ==
  /\ pc.writer = "add"
  /\ artifact' = [kind |-> "unparseable", json |-> EmptyData, text |-> <<>>]
  /\ stages' = Serialize(replaced[2])
  /\ pc' = [pc EXCEPT !.writer = "writing"]
  /\ UNCHANGED <<data, requests, tornIdle>>

\* writeFileSync writes the next block of the text; with the last one the
\* file is the new snapshot.
AddWrite ==
  /\ pc.writer = "writing"
  /\ artifact' = IF Len(stages) = 1
                 THEN [kind |-> "parseable", json |-> replaced[2],
                       text |-> Append(artifact.text, Head(stages))]
                 ELSE [artifact EXCEPT !.text = Append(@, Head(stages))]
  /\ stages' = Tail(stages)
  /\ pc' = [pc EXCEPT !.writer = IF Len(stages) = 1 THEN "written" ELSE "writing"]
  /\ UNCHANGED <<data, requests, tornIdle>>

\* initialize(): existsSync finds the file and readFileSync opens it.
ReadOpen ==
  /\ pc.reader = "initialize"
  /\ requests' = <<>>
  /\ pc' = [pc EXCEPT !.reader = "reading"]
  /\ UNCHANGED <<artifact, data, stages, tornIdle>>

\* readFileSync reads the next block of the file, or finds its end.
ReadBlock ==
  /\ pc.reader = "reading"
  /\ IF Len(requests) < Len(artifact.text)
     THEN /\ requests' = Append(requests, artifact.text[Len(requests) + 1])
          /\ UNCHANGED pc
     ELSE /\ pc' = [pc EXCEPT !.reader = "parse"]
          /\ UNCHANGED requests
  /\ UNCHANGED <<artifact, data, stages, tornIdle>>

\* this.data = JSON.parse(rawData); a SyntaxError is caught and this.data
\* stays what the constructor made it.
ReadParse ==
  /\ pc.reader = "parse"
  /\ data' = IF JSON_parse(requests).ok THEN JSON_parse(requests).json ELSE data
  /\ pc' = [pc EXCEPT !.reader = "loaded"]
  /\ UNCHANGED <<artifact, requests, stages, tornIdle>>

TornNext ==
  \/ AddOpen
  \/ AddWrite
  \/ ReadOpen
  \/ ReadBlock
  \/ ReadParse

TornSpec == TornInit /\ [][TornNext]_vars

(***************************************************************************)
(* Properties                                                              *)
(***************************************************************************)
\* The errors of the enhancement stage, as the values of the code.
NoResults == <<"No results found">>
ModelNotFound == <<"Model not found">>
ModelNotResponding == <<"Model not responding">>
ServiceUnavailable == {FetchFailed, TimedOut, HttpError("500"), JsonError}
EmptyResponse == <<"LLM generation failed: ", "Empty response from LLM">>
GenerationFailed ==
  { <<"LLM generation failed: ">> \o m :
      m \in {FetchFailed, TimedOut, OllamaApiError("500"), JsonError} }
ContextFailed == TypeError

\* An enhancedQuery has ended and its caller holds what it returned or threw.
Ended == pc = "returned" /\ call.op = "enhancedQuery"
Returned == Ended /\ ~ outcome.thrown
Result == Val(outcome)

\* The kind of answer request i got: "pending" while there is none.
Kind(i) == IF requests[i].answer = Null THEN "pending" ELSE requests[i].answer[1].kind
Failed(i) == Kind(i) \in {"network", "timeout", "http", "badjson"}
GenerateRequests == {i \in 1..Len(requests) : requests[i].endpoint = "/api/generate"}

\* What retrieval gives for the arguments of the current enhancedQuery.
Retrieved == Val(RAGQuery_query(data, embedder, TRUE, call.queryText, call.options[1]))

\* The text of the answer to request i is missing, empty or all whitespace.
BlankAnswer(i) ==
  /\ Kind(i) = "ok"
  /\ \/ requests[i].answer[1].response = Null
     \/ \A j \in 1..Len(requests[i].answer[1].response[1]) :
          requests[i].answer[1].response[1][j] \in Whitespace

\* C1 as stated: enhancedQuery never throws, whatever fails.
C1_NeverThrows == Ended => ~ outcome.thrown

\* C1, amended: enhancedQuery throws only what the retriever's query threw,
\* before any request; after retrieval, whatever fails (the probe, the trial
\* generation, the building of the prompt, the generation call), it returns a
\* result holding the retrieved list as ragResults, no enhancedResponse and
\* a populated error.
C1_FailuresAfterRetrievalReturned ==
  Ended =>
    /\ outcome.thrown => stages = <<"RETRIEVE">> /\ requests = <<>>
    /\ ~ outcome.thrown =>
         /\ Result.ragResults = Retrieved
         /\ ( \/ \E i \in 1..Len(requests) : Failed(i)
              \/ BuildPrompt(call.queryText, ragResults).thrown
              \/ terminal = "FALLBACK" )
            => /\ Result.error # Null
               /\ Result.enhancedResponse = Null
               /\ Result.ragResults = Retrieved

\* C1 witness: the generation call timed out and enhancedQuery returned.
C1_Witness ==
  /\ Returned /\ Len(requests) = 3 /\ Kind(3) = "timeout"
  /\ Result.error # Null /\ Len(Result.ragResults) > 0

\* C2: with results retrieved and the probe failing by connection error,
\* timeout or non-2xx status, enhancedQuery returns the results, no
\* enhancedResponse, and the probe's error (ServiceUnavailable).
C2_ProbeFailureIsServiceUnavailable ==
  (Ended /\ Len(requests) >= 1 /\ Kind(1) \in {"network", "timeout", "http"}) =>
    /\ ~ outcome.thrown
    /\ Len(Retrieved) > 0
    /\ Result.ragResults = Retrieved
    /\ Result.enhancedResponse = Null
    /\ Result.error # Null /\ Result.error[1] \in ServiceUnavailable
    /\ Len(requests) = 1

\* C2 witness: the probe got a non-2xx answer.
C2_Witness ==
  /\ Returned /\ Len(requests) = 1 /\ Kind(1) = "http"
  /\ Result.error = Some(HttpError("500")) /\ Len(Result.ragResults) > 0

\* C3: a generation answer whose text is empty or whitespace gives the
\* results, no enhancedResponse and the error EmptyResponse; a generation
\* request failing by network error, timeout or non-2xx status gives a
\* GenerationFailed error, and EmptyResponse is none of those.
C3_EmptyResponseError ==
  /\ EmptyResponse \notin GenerationFailed
  /\ (Ended /\ Len(requests) = 3 /\ BlankAnswer(3)) =>
       /\ ~ outcome.thrown
       /\ Len(Result.ragResults) > 0 /\ Result.ragResults = Retrieved
       /\ Result.enhancedResponse = Null
       /\ Result.error = Some(EmptyResponse)
  /\ (Ended /\ Len(requests) = 3 /\ Kind(3) \in {"network", "timeout", "http"}) =>
       /\ ~ outcome.thrown
       /\ Result.error # Null /\ Result.error[1] \in GenerationFailed

\* C3 witness: the generation answer was whitespace only.
C3_Witness ==
  /\ Returned /\ Len(requests) = 3 /\ Kind(3) = "ok"
  /\ requests[3].answer[1].response = Some(<<" ", "\n">>)
  /\ Result.error = Some(EmptyResponse)

\* C4: a request goes to the generation endpoint only when retrieval gave a
\* result, the probe was answered and the configured model is in its list;
\* empty retrieval ends in FALLBACK with NoResults and a missing model in
\* FALLBACK with ModelNotFound, both without a generation request.
C4_NoGenerationBeforeChecks ==
  /\ GenerateRequests # {} =>
       /\ Len(ragResults) > 0
       /\ requests[1].endpoint = "/api/tags" /\ Kind(1) = "ok"
       /\ requests[1].answer[1].models # Null
       /\ Model \in Range(requests[1].answer[1].models[1])
  /\ (Returned /\ Len(Retrieved) = 0) =>
       /\ terminal = "FALLBACK" /\ Result.error = Some(NoResults)
       /\ requests = <<>>
  /\ ( /\ Returned /\ Len(requests) >= 1 /\ Kind(1) = "ok"
       /\ \/ requests[1].answer[1].models = Null
          \/ Model \notin Range(requests[1].answer[1].models[1]) ) =>
       /\ terminal = "FALLBACK" /\ Result.error = Some(ModelNotFound)
       /\ GenerateRequests = {}

\* C4 witness: the probe listed another model only.
C4_Witness ==
  /\ Returned /\ Len(requests) = 1 /\ Kind(1) = "ok"
  /\ requests[1].answer[1].models = Some(<<"qwen2.5:1.5b">>)
  /\ Result.error = Some(ModelNotFound)

IsPrefix(a, b) == Len(a) <= Len(b) /\ a = SubSeq(b, 1, Len(a))

SpecStages == <<"RETRIEVE", "CHECK_SERVICE", "BUILD_CONTEXT", "GENERATE">>
CodeStages == <<"RETRIEVE", "CHECK_SERVICE", "TEST_MODEL", "BUILD_CONTEXT", "GENERATE">>

\* C5 as stated, for the invocations whose retrieval returned: the stages
\* are RETRIEVE, CHECK_SERVICE, BUILD_CONTEXT, GENERATE with none in between,
\* the invocation ends in AUGMENTED or FALLBACK, and a FALLBACK error is one
\* of the five named.
C5_FourStagesFiveErrors ==
  (call.op = "enhancedQuery" /\ ~ outcome.thrown) =>
    /\ IsPrefix(stages, SpecStages)
    /\ Ended =>
         /\ terminal \in {"AUGMENTED", "FALLBACK"}
         /\ terminal = "FALLBACK" =>
              Cardinality({c \in {{NoResults}, ServiceUnavailable, {ModelNotFound},
                                  GenerationFailed, {EmptyResponse}} :
                             Result.error[1] \in c}) = 1

\* The errors a FALLBACK result of the code carries, each with the stages
\* passed when it is returned.
ErrorClasses ==
  { [errors |-> {NoResults}, at |-> 1],
    [errors |-> ServiceUnavailable, at |-> 2],
    [errors |-> {ModelNotFound}, at |-> 2],
    [errors |-> {ModelNotResponding}, at |-> 3],
    [errors |-> {ContextFailed}, at |-> 4],
    [errors |-> GenerationFailed, at |-> 5],
    [errors |-> {EmptyResponse}, at |-> 5] }

\* C5, amended: an invocation passes through RETRIEVE, CHECK_SERVICE,
\* TEST_MODEL (the trial request of testModelGeneration), BUILD_CONTEXT,
\* GENERATE in that order with no other stage in between; it ends in
\* AUGMENTED after all five, in FALLBACK with exactly one of the errors
\* NoResults, ServiceUnavailable, ModelNotFound, ModelNotResponding, the
\* exception of the context building, GenerationFailed, EmptyResponse, or,
\* when retrieval throws, by propagating that exception from RETRIEVE.
C5_FiveStagesSevenErrors ==
  call.op = "enhancedQuery" =>
    /\ stages # <<>> /\ IsPrefix(stages, CodeStages)
    /\ ~ Ended => pc = stages[Len(stages)] /\ terminal = "none"
    /\ Ended =>
         /\ terminal \in {"AUGMENTED", "FALLBACK", "THROWN"}
         /\ terminal = "THROWN" <=> outcome.thrown
         /\ terminal = "THROWN" => stages = <<"RETRIEVE">>
         /\ terminal = "AUGMENTED" => stages = CodeStages /\ Result.error = Null
         /\ terminal = "FALLBACK" =>
              /\ Result.error # Null
              /\ Cardinality({c \in ErrorClasses : Result.error[1] \in c.errors}) = 1
              /\ \A c \in ErrorClasses :
                   Result.error[1] \in c.errors => stages = SubSeq(CodeStages, 1, c.at)

\* C5 witness: the trial generation failed and the invocation fell back
\* from TEST_MODEL.
C5_Witness ==
  /\ Returned /\ terminal = "FALLBACK"
  /\ Result.error = Some(ModelNotResponding)
  /\ stages = <<"RETRIEVE", "CHECK_SERVICE", "TEST_MODEL">>

\* C6: a request to the generation service that failed or timed out is the
\* last request of its invocation, and the invocation has ended in FALLBACK.
C6_NoRequestAfterFailure ==
  \A i \in 1..Len(requests) :
    Failed(i) => i = Len(requests) /\ Ended /\ terminal = "FALLBACK"

\* C6 witness: the trial generation request timed out.
C6_Witness ==
  /\ Ended /\ Len(requests) = 2 /\ Kind(2) = "timeout" /\ terminal = "FALLBACK"

\* C7 as stated: every invocation eventually reaches AUGMENTED or FALLBACK.
C7_ReachesAugmentedOrFallback ==
  (pc = "RETRIEVE") ~> (terminal \in {"AUGMENTED", "FALLBACK"})

\* C7, amended: when every call to the embedder and to the generation
\* service returns, fails or times out, every invocation eventually ends:
\* in AUGMENTED, in FALLBACK or, when retrieval throws, by propagating that
\* exception.
C7_Terminates ==
  (pc = "RETRIEVE") ~> (Ended /\ terminal \in {"AUGMENTED", "FALLBACK", "THROWN"})

\* C7 witness: an invocation that went through every stage has ended.
C7_Witness == Ended /\ terminal = "AUGMENTED" /\ stages = CodeStages

\* C8: in a returned result enhancedResponse is there exactly when error is
\* null, and it is then the text of the 2xx answer to the generation request
\* without its leading and trailing whitespace, and not empty.
C8_ResponseIffNoError ==
  Returned =>
    /\ Result.enhancedResponse # Null <=> Result.error = Null
    /\ Result.enhancedResponse # Null =>
         LET t == Result.enhancedResponse[1]
         IN /\ t # <<>> /\ t[1] \notin Whitespace /\ t[Len(t)] \notin Whitespace
            /\ terminal = "AUGMENTED"
            /\ Len(requests) = 3 /\ Kind(3) = "ok"
            /\ requests[3].answer[1].response # Null
            /\ LET text == requests[3].answer[1].response[1]
               IN \E i, j \in 1..Len(text) :
                    /\ t = SubSeq(text, i, j)
                    /\ \A k \in 1..Len(text) : (k < i \/ k > j) => text[k] \in Whitespace

\* C8 witness: an answer with whitespace around its text was returned trimmed.
C8_Witness ==
  /\ Returned /\ Result.enhancedResponse = Some(<<"O", " ", "K">>)
  /\ requests[3].answer[1].response = Some(<<" ", "O", " ", "K", "\n">>)

\* C9: once the caller has initialized its query object over a store whose
\* count() is 0 (no artifact yet, an unreadable one, or an empty snapshot),
\* it holds the IndexEmpty error and nothing else: no search returns a
\* result list and no other error is raised.
C9_EmptyStoreIsIndexEmpty ==
  (pc # "new" /\ VectorStore_count(data) = Return(0)) =>
    /\ pc = "initFailed"
    /\ outcome = Throw(IndexEmptyMessage)
    /\ call.op = "none"

\* C9 witness: a search before any build.
C9_Witness ==
  /\ pc = "initFailed" /\ artifact.kind = "missing"
  /\ outcome = Throw(IndexEmptyMessage)

\* C10: query(queryText, {limit: k}) without a filter returns min(k, count())
\* stored entries, each once, in non-increasing similarity with equal
\* similarities in insertion order, and every entry left out ranks after
\* every entry returned; with k >= count() every stored entry is returned;
\* the store raises no error.
C10_TopKStableOrder ==
  (pc = "returned" /\ call.op = "query" /\ DOMAIN WhereClause(call.options[1]) = {}) =>
    /\ outcome.thrown => outcome = Throw(EmbedderError)
    /\ ~ outcome.thrown =>
         LET R == Val(outcome)
             k == OptLimit(call.options[1])
             n == Len(data.ids)
             sim(j) == cosineSimilarity(Embed(call.queryText), data.embeddings[j])
             Idx(i) == CHOOSE j \in 1..n : data.ids[j] = R[i].id
             Before(a, b) ==
               \/ sim(a).num * sim(b).den > sim(b).num * sim(a).den
               \/ sim(a).num * sim(b).den = sim(b).num * sim(a).den /\ a < b
         IN /\ Len(R) = IF k <= n THEN k ELSE n
            /\ \A i \in 1..Len(R) :
                 /\ \E j \in 1..n : data.ids[j] = R[i].id
                 /\ R[i].metadata = data.metadata[Idx(i)]
                 /\ R[i].score.num * sim(Idx(i)).den = sim(Idx(i)).num * R[i].score.den
            /\ \A i, j \in 1..Len(R) : i < j => Before(Idx(i), Idx(j))
            /\ \A j \in 1..n :
                 (\A i \in 1..Len(R) : Idx(i) # j) =>
                   \A i \in 1..Len(R) : Before(Idx(i), j)
            /\ k >= n => {R[i].id : i \in 1..Len(R)} = Range(data.ids)

\* C10 witness: two of three entries returned, equally similar to the query,
\* in their insertion order.
C10_Witness ==
  /\ pc = "returned" /\ call.op = "query" /\ ~ outcome.thrown
  /\ call.options[1].limit = Some(2) /\ DOMAIN WhereClause(call.options[1]) = {}
  /\ call.queryText = "unit tests"
  /\ data.ids = <<"b.json", "c.yml", "a.test.js">>
  /\ Len(Val(outcome)) = 2
  /\ Val(outcome)[1].id = "b.json" /\ Val(outcome)[2].id = "a.test.js"

StoreReturned(op) == pc = "returned" /\ call.op = op
\* The four arrays are of one length.
LockStep(d) ==
  /\ Len(d.documents) = Len(d.embeddings)
  /\ Len(d.documents) = Len(d.metadata)
  /\ Len(d.documents) = Len(d.ids)

\* C12: after add(D, E, M, I) has returned, this.data holds exactly D, E, M
\* and I, the artifact holds the same four (a handle loading it gets them),
\* nothing of the snapshot held before is left, and count() is the length
\* of D.
C12_ReplaceIsWholesale ==
  (StoreReturned("add") /\ ~ outcome.thrown) =>
    LET args == call.args[1]
    IN /\ data.fields = StoreFields
       /\ data.documents = args.documents /\ data.embeddings = args.embeddings
       /\ data.metadata = args.metadata /\ data.ids = args.ids
       /\ artifact.kind = "parseable"
       /\ VectorStore_initialize(artifact, EmptyData) = data
       /\ VectorStore_count(data) = Return(Len(args.documents))

\* C12 witness: a store loaded with two entries was replaced by one other.
C12_Witness ==
  /\ StoreReturned("add") /\ ~ outcome.thrown
  /\ replaced[1].ids = <<"c.yml", "d.js">>
  /\ data.ids = <<"b.json">> /\ artifact.json.ids = <<"b.json">>

\* C13 as stated: add() with arrays of different lengths throws and leaves
\* this.data as it was, so the four arrays of the store are of one length
\* in every reachable state.
C13_ShapeMismatchRejected ==
  /\ (StoreReturned("add") /\ ~ LockStep(call.args[1])) =>
       outcome.thrown /\ data = replaced[1]
  /\ StoreFields \subseteq data.fields => LockStep(data)

\* C14 as stated: when writing the artifact fails, add() throws and
\* this.data is still the snapshot held before the call.
C14_FailedReplaceKeepsSnapshot ==
  (StoreReturned("add") /\ LockStep(call.args[1]) /\ outcome.thrown) =>
    data = replaced[1]

\* The artifact is missing, not parseable, or parseable without the four
\* arrays.
Corrupt(a) == a.kind # "parseable" \/ ~ (StoreFields \subseteq a.json.fields)

\* C15 as stated: initialize() never throws, and on a handle loaded from a
\* missing, unreadable or corrupt artifact count() returns 0 and query()
\* returns no entries.
C15_CorruptArtifactLoadsEmpty ==
  /\ StoreReturned("initialize") => ~ outcome.thrown
  /\ (StoreReturned("count") /\ replaced = <<>> /\ Corrupt(artifact)) =>
       outcome = Return(0)
  /\ (StoreReturned("query") /\ replaced = <<>> /\ Corrupt(artifact)) =>
       ~ outcome.thrown /\ Val(outcome).ids = <<>>

\* What the read called last gives on the snapshot s.
ReadOn(s) ==
  CASE call.op = "count" -> VectorStore_count(s)
    [] call.op = "get" -> VectorStore_get(s, call.args[1])
    [] OTHER -> VectorStore_query(s, call.args[1].queryEmbedding, call.args[1].limit,
                                  call.args[1].where)

\* C16: whenever a count(), get() or query() on the handle returns, what it
\* gives is what it gives on one whole snapshot: the one loaded while no
\* add() was called, else the one held before the last add() or the one
\* that add() assigned; never arrays of two snapshots.
C16_ReadsSeeOneSnapshot ==
  (pc = "returned" /\ call.op \in {"count", "get", "query"}) =>
    IF replaced = <<>>
    THEN outcome = ReadOn(VectorStore_initialize(artifact, EmptyData))
    ELSE outcome = ReadOn(replaced[1]) \/ outcome = ReadOn(replaced[2])

\* C16 witness: a query answered from the snapshot an add() put in place of
\* a loaded one.
C16_Witness ==
  /\ StoreReturned("query") /\ ~ outcome.thrown
  /\ replaced # <<>> /\ replaced[1].ids = <<"c.yml">>
  /\ replaced[2].ids = <<"a.test.js", "b.json">> /\ LockStep(replaced[2])
  /\ Val(outcome).ids = <<"a.test.js">>

\* The chunks returned for the content chunked.
Chunks == Val(outcome)
Chunked == pc = "returned" /\ call.op = "splitIntoChunks"
\* The ranges follow one another from line 1 without gap or overlap.
Contiguous(chunks) ==
  /\ chunks # <<>> => chunks[1].startLine = 1
  /\ \A i \in 1..Len(chunks) : chunks[i].startLine <= chunks[i].endLine
  /\ \A i \in 1..(Len(chunks) - 1) : chunks[i + 1].startLine = chunks[i].endLine + 1
\* The line the last chunk ends at, 0 without a chunk.
LastLine(chunks) == IF chunks = <<>> THEN 0 ELSE chunks[Len(chunks)].endLine

\* C20 as stated, at the chunk size of the code: the ranges of the chunks
\* cover the lines 1..N exactly once, the first starting at line 1 and the
\* last ending at line N, and a content within the chunk size gives one
\* chunk 1..N.
C20_RangesCoverAllLines ==
  (Chunked /\ call.max = maxChunkSize) =>
    /\ Chunks # <<>>
    /\ Contiguous(Chunks)
    /\ LastLine(Chunks) = Len(call.content)
    /\ ContentLength(call.content) <= call.max =>
         Len(Chunks) = 1 /\ Chunks[1].startLine = 1 /\ Chunks[1].endLine = Len(call.content)

\* C20, amended: the ranges of the chunks start at line 1 and follow one
\* another without gap or overlap, and the lines after the last chunk (all
\* the lines when there is no chunk) are whitespace only: a trailing buffer
\* that trims to nothing gives no chunk.  A content within the chunk size
\* gives one chunk 1..N.
C20_RangesCoverUpToBlankTail ==
  Chunked =>
    /\ Contiguous(Chunks)
    /\ LastLine(Chunks) <= Len(call.content)
    /\ \A i \in (LastLine(Chunks) + 1)..Len(call.content) : call.content[i].blank
    /\ ContentLength(call.content) <= call.max =>
         Len(Chunks) = 1 /\ Chunks[1].startLine = 1 /\ Chunks[1].endLine = Len(call.content)

\* C20 witness: a content of three lines split in two chunks, 1..1 and 2..3.
C20_Witness ==
  /\ Chunked /\ call.max = maxChunkSize
  /\ call.content = <<Line(1300, FALSE), Line(1300, FALSE), Line(0, TRUE)>>
  /\ Len(Chunks) = 2
  /\ Chunks[1].startLine = 1 /\ Chunks[1].endLine = 1
  /\ Chunks[2].startLine = 2 /\ Chunks[2].endLine = 3

\* The walk of the build has returned.
Walked == call.op = "build" /\ pc \in {"buildEmbeddings", "storeInVectorDB", "done"}
\* The files the walk pushed chunks of, by their relative paths.
IndexedFiles == {builder.ids[i].file_path : i \in 1..Len(builder.ids)}

\* C17: when the embedder fails on a chunk, build() fails without having
\* called add(): this.data of the store is what initialize() loaded and the
\* artifact is untouched (it changes only by an add()); and a snapshot that
\* add() is called with holds the embedding of every one of its documents.
C17_EmbedderFailureAbortsBuild ==
  /\ [](call.op = "build" =>
          /\ (pc = "failed" /\ outcome = Throw(EmbedderError)) =>
                /\ replaced = <<>>
                /\ data = VectorStore_initialize(artifact, EmptyData)
          /\ replaced # <<>> =>
                /\ Len(replaced[2].embeddings) = Len(replaced[2].documents)
                /\ \A i \in 1..Len(replaced[2].documents) :
                     replaced[2].embeddings[i] = DocEmbedding(replaced[2].documents[i]))
  /\ [][(call.op = "build" /\ replaced' = <<>>) => artifact' = artifact]_vars

\* C17 witness: of the two chunks of a build over a stored snapshot, the
\* embedder failed on one; the build failed and the snapshot is still there.
C17_Witness ==
  /\ call.op = "build" /\ pc = "failed" /\ outcome = Throw(EmbedderError)
  /\ Len(builder.documents) = 2
  /\ artifact.kind = "parseable" /\ data.ids = <<"c.yml">> /\ artifact.json.ids = <<"c.yml">>

\* The files of a listing that can be read, with the path of each from
\* codebaseRoot: statSync and readFileSync return for the file, and
\* statSync and readdirSync for the directory it is in.
ReadableFiles(items) ==
  { <<items[i].name>> : i \in {i \in 1..Len(items) :
        items[i].kind = "file" /\ items[i].stat /\ items[i].read} }
  \cup UNION { { <<items[i].name, items[i].items[j].name>> :
                   j \in {j \in 1..Len(items[i].items) :
                            /\ items[i].items[j].kind = "file"
                            /\ items[i].items[j].stat /\ items[i].items[j].read} }
               : i \in {i \in 1..Len(items) :
                          items[i].kind = "dir" /\ items[i].stat /\ items[i].read} }

\* The files the walk takes when nothing fails: no name on the path is
\* skipped early and shouldIncludeFile accepts the absolute path.
Eligible(path) ==
  /\ \A i \in 1..Len(path) : ~ SkippedEarly(path[i])
  /\ shouldIncludeFile(fsys.root \o path)

\* C18 as stated: no failure on one entry of the walk (a read or stat
\* failure) makes the build fail; the walk returns with the chunks of every
\* eligible file that can be read and of no other.
C18_WalkFailuresNeverAbort ==
  call.op = "build" =>
    /\ pc = "failed" => Err(outcome) \notin {StatError, ReaddirError}
    /\ Walked => IndexedFiles = {path \in ReadableFiles(fsys.items) : Eligible(path)}

\* The names of excludeDirs that are one path segment.
ExcludedSegments == {dir[1] : dir \in {d \in excludeDirs : Len(d) = 1}}
\* No name in the listing begins with a dot.
NoDotNames(items) ==
  \A i \in 1..Len(items) :
    /\ items[i].name[1] # ""
    /\ \A j \in 1..Len(items[i].items) : items[i].items[j].name[1] # ""

\* C19 as stated, for trees without dot-names: the walk indexes exactly the
\* readable files whose extension is in includeExtensions and none of whose
\* directories below codebaseRoot is named in excludeDirs, wherever
\* codebaseRoot itself lies.
C19_IndexedByRelativePath ==
  (Walked /\ NoDotNames(fsys.items)) =>
    IndexedFiles =
      { path \in ReadableFiles(fsys.items) :
          /\ ToLowerCase(ExtName(path)) \in includeExtensions
          /\ \A i \in 1..(Len(path) - 1) : path[i] \notin ExcludedSegments }
\* C21: when a content is split in several chunks, each chunk starts on the
\* line after the one the chunk before it ends on, and the start lines grow
\* strictly with the chunk index.
C21_ConsecutiveChunksContiguous ==
  (Chunked /\ Len(Chunks) > 1) =>
    /\ \A i \in 1..(Len(Chunks) - 1) : Chunks[i].endLine + 1 = Chunks[i + 1].startLine
    /\ \A i, j \in 1..Len(Chunks) : i < j => Chunks[i].startLine < Chunks[j].startLine

\* C21 witness: three lines of 1300 characters at the chunk size of the
\* code give the chunks 1..1, 2..2 and 3..3.
C21_Witness ==
  /\ Chunked /\ call.max = maxChunkSize
  /\ call.content = <<Line(1300, FALSE), Line(1300, FALSE), Line(1300, FALSE)>>
  /\ Len(Chunks) = 3
  /\ \A i \in 1..3 : Chunks[i].startLine = i /\ Chunks[i].endLine = i

\* The lines of the content chunked that chunk i ranges over.
LinesOf(i) == SubSeq(call.content, Chunks[i].startLine, Chunks[i].endLine)

\* C25: when a content over the chunk size is split, a chunk ranging over
\* more than one line holds at most max characters; a chunk holds more only
\* when it is one line that is itself longer than max; and the content of a
\* chunk is the whole lines of its range, trimmed: no line is cut.
C25_OnlyOneLineChunksExceed ==
  (Chunked /\ ContentLength(call.content) > call.max) =>
    \A i \in 1..Len(Chunks) :
      /\ Chunks[i].endLine > Chunks[i].startLine =>
           ContentLength(Chunks[i].content) <= call.max
      /\ ContentLength(Chunks[i].content) > call.max =>
           /\ Chunks[i].endLine = Chunks[i].startLine
           /\ call.content[Chunks[i].startLine].chars > call.max
      /\ Chunks[i].content = TrimLines(LinesOf(i))

\* C25 witness: lines of 700, 1299 and 2500 characters at the chunk size
\* of the code: the first two fill a chunk of exactly 2000 characters, the
\* third is a chunk of its own over the size.
C25_Witness ==
  /\ Chunked /\ call.max = maxChunkSize
  /\ call.content = <<Line(700, FALSE), Line(1299, FALSE), Line(2500, FALSE)>>
  /\ Len(Chunks) = 2
  /\ Chunks[1].endLine = 2 /\ ContentLength(Chunks[1].content) = maxChunkSize
  /\ Chunks[2].startLine = 3 /\ ContentLength(Chunks[2].content) = 2500

\* add() has been called by the build, with the arrays of the builder.
Stored == call.op = "build" /\ replaced # <<>>
\* The positions of the chunks of a file in the arrays of the builder.
PositionsOf(path) == {i \in 1..Len(builder.ids) : builder.ids[i].file_path = path}
\* How many positions of the file come up to position i.
RankOf(path, i) == Cardinality({j \in PositionsOf(path) : j <= i})

\* C22: the ids of the snapshot a build on a new builder stores are
\* pairwise distinct; the one chunk of a file has the relative path as id,
\* and the n > 1 chunks of a file have the ids path:chunk1 .. path:chunkn in
\* this order, with chunk_index 0 .. n-1 and total_chunks n.
C22_IdsDistinctAndNumbered ==
  Stored =>
    /\ replaced[2].ids = builder.ids /\ replaced[2].metadata = builder.metadata
    /\ \A i, j \in 1..Len(builder.ids) : builder.ids[i] = builder.ids[j] => i = j
    /\ Len(builder.metadata) = Len(builder.ids)
    /\ \A i \in 1..Len(builder.ids) :
         LET path == builder.ids[i].file_path
             n == Cardinality(PositionsOf(path))
         IN /\ builder.metadata[i].file_path = path
            /\ builder.metadata[i].total_chunks = n
            /\ builder.metadata[i].chunk_index = RankOf(path, i) - 1
            /\ builder.ids[i].chunk = IF n = 1 THEN 0 ELSE RankOf(path, i)

\* C22 witness: a build stored the two chunks of big.js and the one of
\* index.js: big.js:chunk1, big.js:chunk2, index.js.
C22_Witness ==
  /\ Stored /\ pc = "done"
  /\ builder.ids = << [file_path |-> << <<"big", "js">> >>, chunk |-> 1],
                      [file_path |-> << <<"big", "js">> >>, chunk |-> 2],
                      [file_path |-> << <<"index", "js">> >>, chunk |-> 0] >>
  /\ builder.metadata[2].chunk_index = 1 /\ builder.metadata[2].total_chunks = 2

\* C23 as stated: the file_type of every chunk the walk pushed is the
\* extension of its file without the dot and in lower case, whatever the
\* case of the extension in the file name.
C23_FileTypeIsLowerCase ==
  Walked =>
    \A i \in 1..Len(builder.metadata) :
      LET ext == ExtName(builder.metadata[i].file_path)
      IN /\ builder.metadata[i].file_type = ToLowerCase(ext)
         /\ builder.metadata[i].file_type \in includeExtensions

\* The rules of the claim for a .js chunk, in their order of priority, and
\* the label of the first of them the content matches.
JsRules ==
  << [label |-> "api_route", signatures |-> {"app.get(", "app.post("}],
     [label |-> "test", signatures |-> {"describe(", "test("}],
     [label |-> "module", signatures |-> {"module.exports"}] >>
Matching(content) ==
  {r \in 1..Len(JsRules) : \E sig \in JsRules[r].signatures : Includes(content, sig)}
FirstMatch(content) ==
  IF Matching(content) = {} THEN "javascript"
  ELSE JsRules[CHOOSE r \in Matching(content) : \A q \in Matching(content) : r <= q].label
Classified == pc = "returned" /\ call.op = "getContentType"

\* C24: for a chunk of a .js file getContentType returns the label of the
\* first rule the content matches in the order api_route, test, module, and
\* javascript when it matches none; called again on the same filePath and
\* content it returns the same label.
C24_FirstMatchWins ==
  Classified =>
    /\ \A i, j \in 1..Len(stages) : stages[i] = stages[j]
    /\ Val(outcome) = stages[Len(stages)]
    /\ ToLowerCase(ExtName(call.filePath)) = "js" => Val(outcome) = FirstMatch(call.content)

\* C24 witness: the content of a .js chunk holds module.exports, a test
\* signature and a route registration, in this order; both calls return
\* api_route.
C24_Witness ==
  /\ Classified
  /\ call.filePath[4] = <<"index", "js">>
  /\ call.content = <<CodeLine(40, {"module.exports"}), CodeLine(40, {"describe("}),
                      CodeLine(40, {"app.post("})>>
  /\ stages = <<"api_route", "api_route">>

\* The content of the file at a relative path of the tree.
EntryNamed(items, name) == CHOOSE e \in Range(items) : e.name = name
ContentOf(path) ==
  IF Len(path) = 1 THEN EntryNamed(fsys.items, path[1]).content
  ELSE EntryNamed(EntryNamed(fsys.items, path[1]).items, path[2]).content
\* The calls of a build to the store, by their positions in `requests`.
AddCalls == {i \in 1..Len(requests) : requests[i].to = "vectorStore.add"}

\* C26: a build that succeeded called the embedder once for each document,
\* in the order of the documents, and then add() once, as its last call;
\* the four arrays it passed have one length, embeddings[i] is the
\* embedding of documents[i], and metadata[i] and ids[i] name the file and
\* the chunk of that file whose content documents[i] is.  No build calls
\* add() before the embedding of its last document or a second time.
C26_OneAddAfterAllEmbeddings ==
  call.op = "build" =>
    /\ \A i \in AddCalls : i = Len(requests) /\ i = Len(builder.documents) + 1
    /\ pc = "done" =>
         LET snap == replaced[2]
             n == Len(snap.documents)
         IN /\ requests =
                 [i \in 1..n |-> [to |-> "embedder", doc |-> snap.documents[i]]]
                 \o <<AddRequest>>
            /\ Len(snap.embeddings) = n /\ Len(snap.metadata) = n /\ Len(snap.ids) = n
            /\ \A i \in 1..n :
                 LET path == snap.metadata[i].file_path
                     chunks == splitIntoChunks(ContentOf(path), maxChunkSize)
                     k == snap.metadata[i].chunk_index + 1
                 IN /\ snap.embeddings[i] = DocEmbedding(snap.documents[i])
                    /\ snap.ids[i].file_path = path
                    /\ k \in 1..Len(chunks)
                    /\ snap.ids[i].chunk = IF Len(chunks) = 1 THEN 0 ELSE k
                    /\ snap.documents[i] = chunks[k].content
                    /\ snap.metadata[i].start_line = chunks[k].startLine
                    /\ snap.metadata[i].end_line = chunks[k].endLine

\* C26 witness: a build over big.js and index.js succeeded: three calls to
\* the embedder, for the two chunks of big.js whose embeddings differ and
\* for index.js, then the call to add().
C26_Witness ==
  /\ call.op = "build" /\ pc = "done"
  /\ Len(requests) = 4 /\ AddCalls = {4}
  /\ replaced[2].embeddings = << <<4, 3>>, <<3, 4>>, <<4, 3>> >>
  /\ replaced[2].ids[3].file_path = << <<"index", "js">> >>

\* C29 as stated: a second build on the same builder over the same tree,
\* after a first one that succeeded, stores the snapshot the first one
\* stored: no id twice, no chunk more, the same count.
C29_SecondBuildSameSnapshot ==
  (call.op = "build" /\ stages = <<"done">> /\ pc = "done") =>
    /\ replaced[2] = replaced[1]
    /\ \A i, j \in 1..Len(replaced[2].ids) : replaced[2].ids[i] = replaced[2].ids[j] => i = j
    /\ VectorStore_count(replaced[2]) = VectorStore_count(replaced[1])

\* The sum of the counts of a tally.
RECURSIVE SumCounts(_)
SumCounts(tally) ==
  IF DOMAIN tally = {} THEN 0
  ELSE LET value == CHOOSE v \in DOMAIN tally : TRUE
       IN tally[value] + SumCounts([v \in DOMAIN tally \ {value} |-> tally[v]])

\* C28 as stated: whatever the size of the store, the counts getStats gives
\* by content type sum to count(), and so do the counts by file type.
C28_StatsSumToCount ==
  (pc = "returned" /\ call.op = "getStats") =>
    /\ Val(outcome).count = CountRuns(call.runs)
    /\ SumCounts(Val(outcome).contentTypes) = Val(outcome).count
    /\ SumCounts(Val(outcome).fileTypes) = Val(outcome).count

\* The snapshot initialize() loaded from the artifact.
Loaded == VectorStore_initialize(artifact, EmptyData)
ReadOps == {"query", "searchByCategory", "analyze", "getStats", "enhancedQuery"}

\* C27: no step of query, searchByCategory, analyze, getStats or
\* enhancedQuery, however it ends, changes this.data of the store or the
\* artifact; so after any number of them the store is the snapshot that was
\* loaded, and what each of them returns is what it returns on that
\* snapshot, whatever ran before it.
C27_ReadsNeverModifyStore ==
  /\ [][pc # "new" => (data' = data /\ artifact' = artifact)]_vars
  /\ [](call.op \in ReadOps =>
          /\ data = Loaded
          /\ (pc = "returned" /\ call.op = "query") =>
               \E embedOk \in BOOLEAN :
                 outcome = RAGQuery_query(Loaded, "loaded", embedOk, call.queryText,
                                          call.options[1])
          /\ (pc = "returned" /\ call.op = "searchByCategory") =>
               \E embedOk \in BOOLEAN :
                 outcome = searchByCategory(Loaded, "loaded", embedOk, call.queryText)
          /\ (pc = "returned" /\ call.op = "analyze") =>
               \E embedOk \in BOOLEAN :
                 outcome = analyze(Loaded, "loaded", embedOk, call.queryText)
          /\ (pc = "returned" /\ call.op = "getStats") =>
               outcome = Return(getStats(RunsOf(Loaded.metadata)))
          /\ (call.op = "enhancedQuery" /\ pc # "RETRIEVE" /\ terminal # "THROWN") =>
               ragResults = Val(RAGQuery_query(Loaded, "loaded", TRUE, call.queryText,
                                               call.options[1])))

\* C27 witness: enhancedQuery fell back after it retrieved results from a
\* store of MaxDocs chunks, and the store and the artifact still hold them.
C27_Witness ==
  /\ call.op = "enhancedQuery" /\ pc = "returned" /\ terminal = "FALLBACK"
  /\ ragResults # <<>>
  /\ Len(data.ids) = MaxDocs /\ artifact.kind = "parseable" /\ artifact.json = data

\* C30 as stated: a load that ran while another process was writing the
\* store file in add() leaves the reader with the whole snapshot of before,
\* the whole new one, or an empty store: never with entries of both or
\* with arrays of different lengths.
C30_TornLoadIsOldNewOrEmpty ==
  (call.op = "add || initialize" /\ pc.reader = "loaded") =>
    /\ data \in {replaced[1], replaced[2], EmptyData}
    /\ Len(data.documents) = Len(data.embeddings)
    /\ Len(data.documents) = Len(data.metadata)
    /\ Len(data.documents) = Len(data.ids)
====
